---- MODULE Spec2Model ----
(***************************************************************************)
(* A model of the numerical and resilience logic of the study-tracking     *)
(* application: the retry helper and the chat-completion wrapper of        *)
(* ai_config.py, the grade-prediction pipeline of ml_grade_prediction.py   *)
(* and the required-score solver of grade_prediction.py.                   *)
(*                                                                         *)
(* Each subsystem has its own specification (SpecRetry, SpecML, SpecScore);*)
(* the variables of the other subsystems stay at their idle values.        *)
(***************************************************************************)
EXTENDS Integers, Sequences, FiniteSets, TLC

VARIABLES
    \* ---- call_api_with_retry (ai_config.py) ----
    rFunc,          \* which callable was passed: "generic" or "get_ai_response"
    rMax,           \* max_retries
    rInit,          \* initial_wait
    rFactor,        \* backoff_factor
    attempt,        \* the loop variable of `for attempt in range(max_retries)`
    wait_time,      \* the local wait_time
    last_exception, \* the local last_exception ("None" until a failure)
    rlog,           \* history: one entry per invocation of func
    waits,          \* history: the argument of every time.sleep call
    requests,       \* history: outcome of every client.chat.completions.create
    rpc,            \* "idle", "loop", "returned" or "raised"
    rResult,        \* the value returned, or the exception that escaped
    \* ---- GradePredictionML (ml_grade_prediction.py) ----
    mN,             \* len(grades_data) of the subject
    mValid,         \* whether a frame can be built: every record has a parsable date
    best_model,     \* self.best_model: "None" or the fitted candidate
    best_model_name,\* self.best_model_name
    tpc,            \* "new" until train was called, then "trained"
    trainOut,       \* what train did: Returned(result dict) or Raised(e)
    tFitting,       \* history: whether train entered the loop over the candidates
    ppc,            \* predict_next_grade: "idle", "loop" or "done"
    pNum,           \* num_predictions
    pRows,          \* len(df) inside predict_next_grade
    predictions,    \* the local list predictions
    outputs,        \* history: what best_model.predict returned at each step
    pOut,           \* what predict_next_grade returned: None or a list
    \* ---- calculate_required_score / display_goal_simulation ----
    grades_list,    \* the subject's grade records
    target_grade,   \* the form's target (points)
    remaining_tests,\* the form's number of remaining tests
    test_weight,    \* the form's test weight, counted in halves (2 is 1.0)
    spc,            \* "idle", "input", "calculated" or "reported"
    required_score, \* what calculate_required_score did
    verdict,        \* what the page reports
    averages,       \* the weighted averages the three pages computed for grades_list
    \* ---- the data layer (data.py, data_integrity.py, bulk_operations.py) ----
    files,          \* the JSON files of the working directory, by file name
    session_state,  \* st.session_state, by key
    dop,            \* history: the last data-layer operation and what it did
    before,         \* history: files and session_state before that operation
    nops,           \* history: how many data-layer operations ran
    \* ---- model persistence (ml_grade_prediction.py) ----
    subject_name,   \* the subject_name argument of train
    scaler,         \* self.scaler of the object that trains
    feature_names,  \* self.feature_names of the object that trains
    ml_models,      \* the directory ml_models: the pickle stored per subject
    ml_predictor,   \* the object the prediction tab constructs
    lpc,            \* that object: "none", "loaded" or "predicted"
    lSubject,       \* the subject_name argument of load_model
    lWhen,          \* history: tpc when load_model was called
    lRet,           \* what load_model returned
    lOut,           \* what predict_next_grade returned on that object
    \* ---- GradePredictionML._calculate_trend ----
    scores,         \* the argument grades
    trend_slope,    \* what _calculate_trend did
    \* ---- BackupManager (backup_manager.py) ----
    clock,          \* datetime.now(), in hours
    backups,        \* the directory backups: the datetime of every backup info
    bop,            \* history: the last backup operation and what it did
    bcount,         \* history: how many backup operations ran
    \* ---- filter_grades_by_period (grade_filters.py) ----
    fGrades,        \* the argument grades_data: the records of every subject
    fArgs,          \* the arguments period, custom_start and custom_end
    fNow,           \* datetime.now() inside the call
    fOut            \* what the call returned

retryVars == <<rFunc, rMax, rInit, rFactor, attempt, wait_time, last_exception,
               rlog, waits, requests, rpc, rResult>>
mlVars == <<mN, mValid, best_model, best_model_name, tpc, trainOut, tFitting,
            ppc, pNum, pRows, predictions, outputs, pOut>>
simVars == <<grades_list, target_grade, remaining_tests, test_weight, spc,
             required_score, verdict, averages>>
dataVars == <<files, session_state, dop, before, nops>>
persistVars == <<subject_name, scaler, feature_names, ml_models, ml_predictor,
                 lpc, lSubject, lWhen, lRet, lOut>>
trendVars == <<scores, trend_slope>>
backupVars == <<clock, backups, bop, bcount>>
filterVars == <<fGrades, fArgs, fNow, fOut>>
vars == <<retryVars, mlVars, simVars, dataVars, persistVars, trendVars,
          backupVars, filterVars>>

None == "None"

(***************************************************************************)
(* Bounds of the model.                                                    *)
(***************************************************************************)
MaxRetries == 3
MaxInitialWait == 2
MaxBackoff == 3

(***************************************************************************)
(* Small helpers.                                                          *)
(***************************************************************************)
RECURSIVE Pow(_, _)
Pow(b, e) == IF e = 0 THEN 1 ELSE b * Pow(b, e - 1)

Last(s) == s[Len(s)]

(***************************************************************************)
(* get_ai_response: what the remote client can do on one request.          *)
(* An exception is named by its class; a response carries the three fields *)
(* the function reads.                                                     *)
(***************************************************************************)
ClientExceptions ==
    {"RateLimitError", "APIConnectionError", "APITimeoutError",
     "AuthenticationError", "BadRequestError", "InternalServerError",
     "APIError", "ValueError"}

\* The class hierarchy of the openai package that the isinstance chain relies on.
Bases(cls) ==
    CASE cls = "RateLimitError"      -> {"RateLimitError", "APIError", "Exception"}
      [] cls = "APIConnectionError"  -> {"APIConnectionError", "APIError", "Exception"}
      [] cls = "APITimeoutError"     -> {"APITimeoutError", "APIConnectionError",
                                         "APIError", "Exception"}
      [] cls = "AuthenticationError" -> {"AuthenticationError", "APIError", "Exception"}
      [] cls = "BadRequestError"     -> {"BadRequestError", "APIError", "Exception"}
      [] cls = "InternalServerError" -> {"InternalServerError", "APIError", "Exception"}
      [] cls = "APIError"            -> {"APIError", "Exception"}
      [] OTHER                       -> {cls, "Exception"}

isinstance(e, cls) == cls \in Bases(e)

FinishReasons == {"stop", "length", "content_filter"}
Contents == {None, "", "  ", "text"}

\* choices = FALSE is a response whose choices list is empty.
ClientResponses ==
    [kind : {"response"}, choices : {TRUE}, refusal : BOOLEAN,
     finish_reason : FinishReasons, content : Contents]
    \cup {[kind |-> "response", choices |-> FALSE, refusal |-> FALSE,
           finish_reason |-> "stop", content |-> None]}

ClientOutcomes ==
    [kind : {"exception"}, cls : ClientExceptions] \cup ClientResponses

Returned(v) == [kind |-> "return", val |-> v]
Raised(e) == [kind |-> "raise", val |-> e]

\* What calculate_required_score can do: return None, return a number (kept
\* as the fraction num/den) or raise.
NoScore == [kind |-> "none", num |-> 0, den |-> 1]
Score(n, d) == [kind |-> "num", num |-> n, den |-> d]
ScoreRaised == [kind |-> "raise", num |-> 0, den |-> 1]
\* A float division 0.0/0.0 of numpy values: NaN, with a warning only.
ScoreNaN == [kind |-> "nan", num |-> 0, den |-> 1]

\* The averages before any page computed them.
NoAverages ==
    [computed |-> FALSE, weighted_average |-> NoScore, average_grade |-> NoScore,
     summary |-> NoScore]

\* Idle values of the prediction pipeline's results, and what
\* predict_next_grade returns: None or a list.
NotTrained == Returned([success |-> FALSE, error |-> "not_called"])
NoneResult == [isNone |-> TRUE, list |-> <<>>]
ListResult(l) == [isNone |-> FALSE, list |-> l]

strip(s) == IF s = "  " THEN "" ELSE s

\* JSON values, as json.load builds them and st.session_state holds them:
\* null, a bool, a string, a list, a dict (a function of its keys) or a
\* number, which is one of the floats Num(v), NaN, PosInf, NegInf defined
\* further down. Each kind is a record of its own field.
JNull == [null |-> TRUE]
JBool(b) == [bool |-> b]
JStr(s) == [str |-> s]
JList(l) == [list |-> l]
JDict(f) == [dict |-> f]
\* isinstance(x, str), isinstance(x, list), isinstance(x, dict), x is None
IsStr(x) == DOMAIN x = {"str"}
IsList(x) == DOMAIN x = {"list"}
IsDict(x) == DOMAIN x = {"dict"}
IsNull(x) == DOMAIN x = {"null"}
IsBool(x) == DOMAIN x = {"bool"}
IsNumber(x) == DOMAIN x = {"k", "v"}

\* A file is missing, holds text json.load rejects, or holds a JSON value.
Missing == [state |-> "missing", data |-> JNull]
Malformed == [state |-> "malformed", data |-> JNull]
Json(v) == [state |-> "json", data |-> v]

\* A key of st.session_state is absent or bound to a value.
Unset == [set |-> FALSE, val |-> JNull]
Bound(v) == [set |-> TRUE, val |-> v]

FileNames ==
    {"subjects.json", "goals.json", "progress.json", "grades.json",
     "user_profile.json", "reminders.json"}
SessionKeys ==
    {"subjects", "goals", "progress", "grades", "user_profile", "reminders"}

\* Idle values of the data layer.
NoFiles == [f \in FileNames |-> Missing]
NoSession == [key \in SessionKeys |-> Unset]
NoOp == [name |-> "none", arg |-> <<>>, result |-> Returned(None)]
NoPrev == [files |-> NoFiles, session_state |-> NoSession]

\* The subjects the prediction page offers: the session's subject names,
\* which add_subject takes from a free text input.
MLSubjects == {"math", "english", "english/oral"}

\* StandardScaler(): not fitted until train fits it on the training part.
StandardScaler == [fitted |-> FALSE, samples |-> 0]
FittedScaler(n) == [fitted |-> TRUE, samples |-> n]

\* A path of ml_models with no file, and the pickle _save_model writes.
NoPickle == [exists |-> FALSE, model |-> None, scaler |-> StandardScaler,
             model_name |-> None, feature_names |-> <<>>]
Pickle(model, sc, name, names) ==
    [exists |-> TRUE, model |-> model, scaler |-> sc, model_name |-> name,
     feature_names |-> names]
NoModels == [s \in MLSubjects |-> NoPickle]

\* GradePredictionML(): what __init__ leaves in the object.
GradePredictionML ==
    [best_model |-> None, best_model_name |-> None, scaler |-> StandardScaler,
     feature_names |-> <<>>]
NoPredictor == GradePredictionML

\* No backup operation ran yet.
NoBackupOp == [name |-> "none", at |-> 0, before |-> {}, created |-> FALSE]

\* filter_grades_by_period before it was called.
NoDateTime == [day |-> 0, time |-> 0]
NoFilterArgs == [period |-> "none", custom_start |-> None, custom_end |-> None]
NoFilterOut == [called |-> FALSE, data |-> <<>>]

\* _calculate_trend before it was called.
NoSlope == [called |-> FALSE, k |-> "zero", num |-> 0, den |-> 1, rounding |-> 0]

\* The body of the try block after client.chat.completions.create returned.
TryBody(resp) ==
    IF ~resp.choices THEN Raised("IndexError")
    ELSE IF resp.refusal THEN Returned("msg:refusal")
    ELSE IF resp.finish_reason = "content_filter" THEN Returned("msg:content_filter")
    ELSE IF resp.content = None \/ strip(resp.content) = "" THEN Returned("msg:empty")
    ELSE Returned(resp.content)

\* The last branch of the handler: any exception that is no openai APIError.
UnexpectedErrorReraised(e) == Raised(e)
UnexpectedError(e) == Returned("msg:unexpected")

\* The `except Exception as e` handler.
ExceptHandler(e) ==
    IF isinstance(e, "RateLimitError") THEN Returned("msg:rate_limit")
    ELSE IF isinstance(e, "APIConnectionError") THEN Returned("msg:connection")
    ELSE IF isinstance(e, "AuthenticationError") THEN Returned("msg:authentication")
    ELSE IF isinstance(e, "BadRequestError") THEN Returned("msg:bad_request")
    ELSE IF isinstance(e, "InternalServerError") THEN Returned("msg:server")
    ELSE IF isinstance(e, "APIError") THEN Returned("msg:api_error")
    ELSE UnexpectedError(e)

get_ai_response(o) ==
    LET body == IF o.kind = "exception" THEN Raised(o.cls) ELSE TryBody(o)
    IN  IF body.kind = "raise" THEN ExceptHandler(body.val) ELSE body

(***************************************************************************)
(* call_api_with_retry.                                                    *)
(***************************************************************************)
\* What a callable other than get_ai_response can do on one invocation.
GenericOutcomes ==
    {Returned("value")} \cup {Raised(e) : e \in {"RateLimitError", "ValueError"}}

\* `for attempt in range(max_retries)`
LoopGuardOffByOne(a, m) == a <= m
LoopGuard(a, m) == a < m

\* `if attempt < max_retries - 1`
ShouldSleep(a, m) == a < m - 1

\* `wait_time *= backoff_factor`
NextWaitLinear(w, f) == w + f
NextWait(w, f) == w * f

\* `return func()` leaves the helper with func's value.
OnReturnContinue(v) ==
    /\ attempt' = attempt + 1
    /\ UNCHANGED <<rpc, rResult>>
OnReturn(v) ==
    /\ rpc' = "returned"
    /\ rResult' = v
    /\ UNCHANGED attempt

\* `raise last_exception`; raising None is a TypeError in Python.
RaiseLast(le) == IF le = None THEN "TypeError" ELSE le

InitRetry ==
    /\ rFunc \in {"generic", "get_ai_response"}
    /\ rMax \in 0..MaxRetries
    /\ rInit \in 1..MaxInitialWait
    /\ rFactor \in 1..MaxBackoff
    /\ attempt = 0
    /\ wait_time = rInit
    /\ last_exception = None
    /\ rlog = <<>> /\ waits = <<>> /\ requests = <<>>
    /\ rpc = "loop"
    /\ rResult = None
    /\ mN = 0 /\ mValid = TRUE /\ best_model = None /\ best_model_name = None
    /\ tpc = "new" /\ trainOut = NotTrained /\ tFitting = FALSE
    /\ ppc = "idle" /\ pNum = 0 /\ pRows = 0
    /\ predictions = <<>> /\ outputs = <<>> /\ pOut = NoneResult
    /\ grades_list = <<>> /\ target_grade = 0 /\ remaining_tests = 0
    /\ test_weight = 0 /\ spc = "idle" /\ required_score = NoScore
    /\ verdict = "none" /\ averages = NoAverages
    /\ files = NoFiles /\ session_state = NoSession
    /\ dop = NoOp /\ before = NoPrev /\ nops = 0
    /\ subject_name = None /\ scaler = StandardScaler /\ feature_names = <<>>
    /\ ml_models = NoModels /\ ml_predictor = NoPredictor /\ lpc = "none"
    /\ lSubject = None /\ lWhen = "new" /\ lRet = FALSE /\ lOut = NoneResult
    /\ scores = <<>> /\ trend_slope = NoSlope
    /\ clock = 0 /\ backups = {} /\ bop = NoBackupOp /\ bcount = 0
    /\ fGrades = <<>> /\ fArgs = NoFilterArgs /\ fNow = NoDateTime
    /\ fOut = NoFilterOut

\* One iteration of the loop body, given what func did.
Iteration(r) ==
    /\ rlog' = Append(rlog, r)
    /\ IF r.kind = "return"
       THEN /\ OnReturn(r.val)
            /\ UNCHANGED <<wait_time, last_exception, waits>>
       ELSE /\ last_exception' = r.val
            /\ IF ShouldSleep(attempt, rMax)
               THEN /\ waits' = Append(waits, wait_time)
                    /\ wait_time' = NextWait(wait_time, rFactor)
               ELSE UNCHANGED <<waits, wait_time>>
            /\ attempt' = attempt + 1
            /\ UNCHANGED <<rpc, rResult>>

\* An iteration whose func is an arbitrary callable.
InvokeGeneric ==
    /\ rpc = "loop" /\ rFunc = "generic"
    /\ LoopGuard(attempt, rMax)
    /\ \E r \in GenericOutcomes : Iteration(r)
    /\ UNCHANGED <<rFunc, rMax, rInit, rFactor, requests, mlVars, simVars, dataVars, persistVars, trendVars,
                   backupVars, filterVars>>

\* An iteration whose func is `lambda: get_ai_response(...)`.
InvokeGetAiResponse ==
    /\ rpc = "loop" /\ rFunc = "get_ai_response"
    /\ LoopGuard(attempt, rMax)
    /\ \E o \in ClientOutcomes :
          /\ requests' = Append(requests, o)
          /\ Iteration(get_ai_response(o))
    /\ UNCHANGED <<rFunc, rMax, rInit, rFactor, mlVars, simVars, dataVars, persistVars, trendVars,
                   backupVars, filterVars>>

\* The loop ran out: `raise last_exception`.
Exhausted ==
    /\ rpc = "loop"
    /\ ~LoopGuard(attempt, rMax)
    /\ rpc' = "raised"
    /\ rResult' = RaiseLast(last_exception)
    /\ UNCHANGED <<rFunc, rMax, rInit, rFactor, attempt, wait_time,
                   last_exception, rlog, waits, requests, mlVars, simVars,
                   dataVars, persistVars, trendVars,
                   backupVars, filterVars>>

NextRetry == InvokeGeneric \/ InvokeGetAiResponse \/ Exhausted

SpecRetry == InitRetry /\ [][NextRetry]_vars

(***************************************************************************)
(* Claims about call_api_with_retry and get_ai_response (SpecRetry).       *)
(***************************************************************************)
RetryDone == rpc \in {"returned", "raised"}
Failures == Cardinality({i \in DOMAIN rlog : rlog[i].kind = "raise"})
AllRaised == \A i \in DOMAIN rlog : rlog[i].kind = "raise"

\* C4: call_api_with_retry(func, max_retries=n) invokes func at most n times;
\* an invocation that returns is the last one, its value is the helper's
\* result, and no sleep follows it (every sleep follows one of the failures
\* before it).
C4_AtMostMaxAndFirstSuccessReturns ==
    /\ Len(rlog) <= rMax
    /\ \A i \in DOMAIN rlog :
          rlog[i].kind = "return" =>
             /\ i = Len(rlog)
             /\ rpc = "returned"
             /\ rResult = rlog[i].val
             /\ Len(waits) = i - 1

C4_Witness ==
    /\ rFunc = "generic" /\ rpc = "returned"
    /\ Len(rlog) = 2 /\ rMax = 3 /\ Len(waits) = 1

C6_FailingRequestIsRetried ==
    (rFunc = "get_ai_response" /\ RetryDone) =>
        \/ Len(requests) = rMax
        \/ (requests # <<>> /\ Last(requests).kind = "response")

\* C7: the k-th sleep lasts initial_wait * backoff_factor^(k-1); there is one
\* sleep per failed attempt except the max_retries-th, which has none.
C7_ExponentialBackoff ==
    /\ \A k \in DOMAIN waits : waits[k] = rInit * Pow(rFactor, k - 1)
    /\ Len(waits) = IF Failures < rMax THEN Failures
                    ELSE IF rMax = 0 THEN 0 ELSE rMax - 1

C7_Witness ==
    /\ rpc = "raised" /\ rMax = 3 /\ rInit = 2 /\ rFactor = 3
    /\ waits = <<2, 6>> /\ Failures = 3

\* The strings get_ai_response shows to the user.
UserFacingStrings ==
    {"msg:refusal", "msg:content_filter", "msg:empty", "msg:rate_limit",
     "msg:connection", "msg:authentication", "msg:bad_request", "msg:server",
     "msg:api_error", "msg:unexpected", "text"}

\* C8: every invocation of get_ai_response returns a user-facing string,
\* whatever the client raised or answered; none raises.
C8_GetAiResponseNeverRaises ==
    rFunc = "get_ai_response" =>
        /\ Len(rlog) = Len(requests)
        /\ \A i \in DOMAIN rlog :
              /\ rlog[i].kind = "return"
              /\ rlog[i].val \in UserFacingStrings

C8_Witness ==
    /\ rFunc = "get_ai_response" /\ rlog # <<>>
    /\ requests[1].kind = "exception" /\ requests[1].cls = "ValueError"
    /\ rlog[1] = Returned("msg:unexpected")

(***************************************************************************)
(* Floating-point values: a finite number (in hundredths of a point), NaN  *)
(* or an infinity, compared the way Python compares floats.                *)
(***************************************************************************)
Num(v) == [k |-> "num", v |-> v]
NaN == [k |-> "nan", v |-> 0]
PosInf == [k |-> "inf", v |-> 1]
NegInf == [k |-> "inf", v |-> -1]

\* a < b on floats: false as soon as one side is NaN.
FloatLt(a, b) ==
    /\ a.k # "nan" /\ b.k # "nan"
    /\ IF a.k = "inf" THEN a.v < 0 /\ b # a
       ELSE IF b.k = "inf" THEN b.v > 0
       ELSE a.v < b.v
FloatGt(a, b) == FloatLt(b, a)

\* Python's min(a, b) and max(a, b): the first argument unless the second
\* compares smaller (larger).
PyMin(a, b) == IF FloatLt(b, a) THEN b ELSE a
PyMax(a, b) == IF FloatGt(b, a) THEN b ELSE a

\* round(x, 1) of a value in hundredths: to the nearest tenth, ties to even.
Round1(x) ==
    IF x.k # "num" THEN x
    ELSE LET q == x.v \div 10
             r == x.v % 10
         IN  Num(10 * (IF r < 5 THEN q
                       ELSE IF r > 5 THEN q + 1
                       ELSE IF q % 2 = 0 THEN q ELSE q + 1))

(***************************************************************************)
(* GradePredictionML.train.                                                *)
(***************************************************************************)
MaxRecords == 9

\* self.models, in the insertion order of the dict.
ModelOrder == <<"random_forest", "gradient_boosting", "linear_regression", "ridge">>
ModelNames == {ModelOrder[i] : i \in DOMAIN ModelOrder}

NoneFrame == [isNone |-> TRUE, len |-> 0]
Frame(n) == [isNone |-> FALSE, len |-> n]

\* prepare_features: None below 3 records, else one feature row per record
\* from the third on; a malformed record raises when the frame is built.
prepare_features(n, valid) ==
    IF n = 0 \/ n < 3 THEN Returned(NoneFrame)
    ELSE IF ~valid THEN Raised("KeyError")
    ELSE Returned(Frame(n - 2))

\* `if df is None or len(df) < 5`
TooFewRows(df) == df.isNone \/ df.len < 5

InsufficientData == [success |-> FALSE, error |-> "insufficient_data"]
Failure(e) == [success |-> FALSE, error |-> e]

\* test_size by len(df), as a percentage.
TestSizePct(n) == IF n < 10 THEN 20 ELSE IF n < 20 THEN 25 ELSE 30

\* train_test_split: the test part is ceil(test_size * n) samples.
TestSamples(n) == (TestSizePct(n) * n + 99) \div 100

\* r2_score on the held-out split: undefined (NaN) below two samples.
R2Values(nTest) == IF nTest < 2 THEN {NaN} ELSE {Num(-50), Num(0), Num(90)}

\* What scikit-learn does during the loop over self.models: the R2 of every
\* candidate, and how many candidates were processed before one raised
\* (4: none raised).
FitOutcomes(nTest) ==
    [r2 : [ModelNames -> R2Values(nTest)], completed : 0..Len(ModelOrder)]

\* A fresh object: best_model and best_model_name are None; train starts
\* its local best_score at -inf.
NoBest == [model |-> None, name |-> None, score |-> NegInf]

\* `if r2 > best_score`
Better(r2, best_score) == FloatGt(r2, best_score)

\* The selection after the first k candidates of the loop.
RECURSIVE SelectBest(_, _)
SelectBest(r2, k) ==
    IF k = 0 THEN NoBest
    ELSE LET prev == SelectBest(r2, k - 1)
             name == ModelOrder[k]
         IN  IF Better(r2[name], prev.score)
             THEN [model |-> name, name |-> name, score |-> r2[name]]
             ELSE prev

\* X.columns.tolist(): the keys of feature_dict without 'target'.
FeatureNames ==
    <<"mean_grade", "std_grade", "min_grade", "max_grade", "median_grade",
      "recent_avg_3", "recent_avg_5", "trend_slope", "coefficient_variation",
      "num_tests", "num_assignments", "weighted_avg", "days_since_first",
      "avg_days_between">>

\* os.path.join('ml_models', f'{subject_name}_model.pkl') names a file
\* directly under ml_models unless the subject name holds a separator; then
\* the file lies in a directory that makedirs did not create.
PathNested(subject) == subject \in {"english/oral"}

\* _save_model: writes the pickle; when open raises, the handler logs the
\* error and nothing is written.
_save_model(dir, model, sc, name, names, subject) ==
    IF PathNested(subject) THEN dir
    ELSE [dir EXCEPT ![subject] = Pickle(model, sc, name, names)]

\* The `except Exception as e` handler of train.
TrainExceptReraise(e) == Raised(e)
TrainExcept(e) == Returned(Failure(e))

\* The body of train's try block: its outcome, whether the loop over the
\* candidates was entered, and the selection it left in the object.
TrainBody(n, valid, fit) ==
    LET pf == prepare_features(n, valid)
        untouched == [scaler |-> StandardScaler, feature_names |-> <<>>,
                      saves |-> FALSE]
    IN  IF pf.kind = "raise"
        THEN [out |-> pf, fitting |-> FALSE, best |-> NoBest] @@ untouched
        ELSE IF TooFewRows(pf.val)
        THEN [out |-> Returned(InsufficientData), fitting |-> FALSE,
              best |-> NoBest] @@ untouched
        ELSE LET best == SelectBest(fit.r2, fit.completed)
                 rows == pf.val.len
                 fitted == FittedScaler(rows - TestSamples(rows))
             IN  IF fit.completed < Len(ModelOrder)
                 THEN [out |-> Raised("ValueError"), fitting |-> TRUE,
                       best |-> best, scaler |-> fitted,
                       feature_names |-> FeatureNames, saves |-> FALSE]
                 ELSE [out |-> Returned([success |-> TRUE,
                                         best_model |-> best.name,
                                         best_score |-> best.score,
                                         r2 |-> fit.r2]),
                       fitting |-> TRUE, best |-> best, scaler |-> fitted,
                       feature_names |-> FeatureNames, saves |-> TRUE]

(***************************************************************************)
(* GradePredictionML.predict_next_grade.                                   *)
(***************************************************************************)
MaxPredictions == 2

\* What best_model.predict can return, in hundredths of a point.
RegressorOutputs ==
    {Num(-5000), Num(-1), Num(3725), Num(9996), Num(10000), Num(10001),
     Num(25000), NaN, PosInf, NegInf}

\* `predicted_grade = max(0, min(100, predicted_grade))`
ClampUpperOnly(p) == PyMin(Num(10000), p)
ClampGrade(p) == PyMax(Num(0), PyMin(Num(10000), p))

\* _calculate_confidence_interval: +-1.96 * 5.0 around the prediction.
AddNum(x, d) == IF x.k = "num" THEN Num(x.v + d) ELSE x
ConfidenceInterval(p) ==
    [lower |-> PyMax(Num(0), Round1(AddNum(p, -980))),
     upper |-> PyMin(Num(10000), Round1(AddNum(p, 980)))]


InitML ==
    /\ rFunc = "none" /\ rMax = 0 /\ rInit = 0 /\ rFactor = 0
    /\ attempt = 0 /\ wait_time = 0 /\ last_exception = None
    /\ rlog = <<>> /\ waits = <<>> /\ requests = <<>>
    /\ rpc = "idle" /\ rResult = None
    /\ mN \in 0..MaxRecords
    /\ mValid \in BOOLEAN
    /\ best_model = None /\ best_model_name = None
    /\ tpc = "new" /\ trainOut = NotTrained /\ tFitting = FALSE
    /\ ppc = "idle" /\ pNum = 0 /\ pRows = 0
    /\ predictions = <<>> /\ outputs = <<>> /\ pOut = NoneResult
    /\ grades_list = <<>> /\ target_grade = 0 /\ remaining_tests = 0
    /\ test_weight = 0 /\ spc = "idle" /\ required_score = NoScore
    /\ verdict = "none" /\ averages = NoAverages
    /\ files = NoFiles /\ session_state = NoSession
    /\ dop = NoOp /\ before = NoPrev /\ nops = 0
    /\ subject_name \in MLSubjects /\ scaler = StandardScaler /\ feature_names = <<>>
    /\ ml_models = NoModels /\ ml_predictor = NoPredictor /\ lpc = "none"
    /\ lSubject = None /\ lWhen = "new" /\ lRet = FALSE /\ lOut = NoneResult
    /\ scores = <<>> /\ trend_slope = NoSlope
    /\ clock = 0 /\ backups = {} /\ bop = NoBackupOp /\ bcount = 0
    /\ fGrades = <<>> /\ fArgs = NoFilterArgs /\ fNow = NoDateTime
    /\ fOut = NoFilterOut

\* train(grades_data, subject_name) on a fresh object.
Train ==
    /\ tpc = "new" /\ ppc = "idle"
    /\ \E fit \in FitOutcomes(TestSamples(IF mN < 3 THEN 0 ELSE mN - 2)) :
          LET body == TrainBody(mN, mValid, fit)
          IN  /\ trainOut' = IF body.out.kind = "raise"
                             THEN TrainExcept(body.out.val)
                             ELSE body.out
              /\ tFitting' = body.fitting
              /\ best_model' = body.best.model
              /\ best_model_name' = body.best.name
              /\ scaler' = body.scaler
              /\ feature_names' = body.feature_names
              /\ ml_models' = IF body.saves
                               THEN _save_model(ml_models, body.best.model,
                                                body.scaler, body.best.name,
                                                body.feature_names, subject_name)
                               ELSE ml_models
    /\ tpc' = "trained"
    /\ UNCHANGED <<mN, mValid, ppc, pNum, pRows, predictions, outputs, pOut>>
    /\ UNCHANGED <<subject_name, ml_predictor, lpc, lSubject, lWhen, lRet, lOut>>
    /\ UNCHANGED <<retryVars, simVars, dataVars, trendVars,
                   backupVars, filterVars>>

\* predict_next_grade(grades_data, num_predictions) up to the loop: None
\* without a model, and None when building the frame raises.
PredictCall ==
    /\ ppc = "idle"
    /\ \E k \in 0..MaxPredictions :
          /\ pNum' = k
          /\ IF best_model = None \/ mN = 0 \/ ~mValid
             THEN /\ ppc' = "done"
                  /\ pOut' = NoneResult
                  /\ UNCHANGED pRows
             ELSE /\ ppc' = "loop"
                  /\ pRows' = mN
                  /\ UNCHANGED pOut
    /\ UNCHANGED <<mN, mValid, best_model, best_model_name, tpc, trainOut,
                   tFitting, predictions, outputs>>
    /\ UNCHANGED <<retryVars, simVars, dataVars, persistVars, trendVars,
                   backupVars, filterVars>>

\* One iteration of the prediction loop in which nothing raises.
PredictStep ==
    /\ ppc = "loop" /\ Len(predictions) < pNum
    /\ \E p \in RegressorOutputs :
          LET predicted_grade == ClampGrade(p)
          IN  /\ outputs' = Append(outputs, p)
              /\ predictions' = Append(predictions,
                    [prediction_num |-> Len(predictions) + 1,
                     predicted_grade |-> Round1(predicted_grade),
                     confidence_interval |-> ConfidenceInterval(predicted_grade)])
    /\ pRows' = pRows + 1
    /\ UNCHANGED <<mN, mValid, best_model, best_model_name, tpc, trainOut,
                   tFitting, ppc, pNum, pOut>>
    /\ UNCHANGED <<retryVars, simVars, dataVars, persistVars, trendVars,
                   backupVars, filterVars>>

\* An iteration in which pandas or scikit-learn raises: the handler logs and
\* returns None.
PredictRaise ==
    /\ ppc = "loop" /\ Len(predictions) < pNum
    /\ ppc' = "done"
    /\ pOut' = NoneResult
    /\ UNCHANGED <<mN, mValid, best_model, best_model_name, tpc, trainOut,
                   tFitting, pNum, pRows, predictions, outputs>>
    /\ UNCHANGED <<retryVars, simVars, dataVars, persistVars, trendVars,
                   backupVars, filterVars>>

\* `return predictions`
PredictReturn ==
    /\ ppc = "loop" /\ Len(predictions) = pNum
    /\ ppc' = "done"
    /\ pOut' = ListResult(predictions)
    /\ UNCHANGED <<mN, mValid, best_model, best_model_name, tpc, trainOut,
                   tFitting, pNum, pRows, predictions, outputs>>
    /\ UNCHANGED <<retryVars, simVars, dataVars, persistVars, trendVars,
                   backupVars, filterVars>>

(***************************************************************************)
(* GradePredictionML.load_model, and predict_next_grade on the object it   *)
(* filled.                                                                 *)
(***************************************************************************)
\* load_model(subject_name): False when the path does not exist, else the
\* four attributes are taken from the pickle and True is returned.
load_model(dir, self, subject) ==
    IF ~dir[subject].exists
    THEN [ret |-> FALSE, self |-> self]
    ELSE [ret |-> TRUE,
          self |-> [best_model |-> dir[subject].model,
                    best_model_name |-> dir[subject].model_name,
                    scaler |-> dir[subject].scaler,
                    feature_names |-> dir[subject].feature_names]]

\* `ml_predictor = GradePredictionML()` followed by
\* `ml_predictor.load_model(selected_subject)`.
LoadModel ==
    /\ lpc = "none"
    /\ \E s \in MLSubjects :
          LET r == load_model(ml_models, GradePredictionML, s)
          IN  /\ lSubject' = s
              /\ lRet' = r.ret
              /\ ml_predictor' = r.self
    /\ lWhen' = tpc
    /\ lpc' = "loaded"
    /\ UNCHANGED <<subject_name, scaler, feature_names, ml_models, lOut>>
    /\ UNCHANGED <<retryVars, mlVars, simVars, dataVars, trendVars,
                   backupVars, filterVars>>

\* One entry of the list predict_next_grade builds.
Prediction(i, p) ==
    [prediction_num |-> i,
     predicted_grade |-> Round1(ClampGrade(p)),
     confidence_interval |-> ConfidenceInterval(ClampGrade(p))]

\* predict_next_grade(grades_data, num_predictions) on ml_predictor, as one
\* step: None without a model or when anything raises, else the list.
LoadedPredict ==
    /\ lpc = "loaded"
    /\ \E k \in 0..MaxPredictions, raises \in BOOLEAN :
       \E outs \in [1..k -> RegressorOutputs] :
          lOut' = IF ml_predictor.best_model = None \/ mN = 0 \/ ~mValid
                  THEN NoneResult
                  ELSE IF raises /\ k > 0 THEN NoneResult
                  ELSE ListResult([i \in 1..k |-> Prediction(i, outs[i])])
    /\ lpc' = "predicted"
    /\ UNCHANGED <<subject_name, scaler, feature_names, ml_models,
                   ml_predictor, lSubject, lWhen, lRet>>
    /\ UNCHANGED <<retryVars, mlVars, simVars, dataVars, trendVars,
                   backupVars, filterVars>>

NextPersist == Train \/ LoadModel \/ LoadedPredict

SpecPersist == InitML /\ [][NextPersist]_vars

NextML == Train \/ PredictCall \/ PredictStep \/ PredictRaise \/ PredictReturn

SpecML == InitML /\ [][NextML]_vars

(***************************************************************************)
(* Claims about GradePredictionML (SpecML).                                *)
(***************************************************************************)
InRange0To100(x) == x.k = "num" /\ 0 <= x.v /\ x.v <= 10000

PredictReturnedList == ppc = "done" /\ ~pOut.isNone

\* C1: whenever predict_next_grade returns a list, every entry's
\* predicted_grade lies in [0,100], whatever the regressor returned at any
\* step (below 0, above 100, in between, NaN or infinite).
C1_PredictedGradeClamped ==
    PredictReturnedList =>
        /\ Len(pOut.list) = pNum
        /\ \A i \in DOMAIN pOut.list : InRange0To100(pOut.list[i].predicted_grade)

C1_Witness ==
    /\ PredictReturnedList
    /\ outputs = <<Num(-5000), Num(25000)>>
    /\ pOut.list[1].predicted_grade = Num(0)
    /\ pOut.list[2].predicted_grade = Num(10000)

\* C2: train called with fewer than 5 grade records (none included) returns
\* a result with success=False and an error message; no exception escapes.
C2_FewRecordsFailWithoutRaising ==
    (tpc = "trained" /\ mN < 5) =>
        /\ trainOut.kind = "return"
        /\ trainOut.val.success = FALSE
        /\ trainOut.val.error \in {"insufficient_data", "KeyError", "ValueError"}

C2_Witness ==
    /\ tpc = "trained" /\ mN = 4 /\ ~mValid
    /\ trainOut = Returned(Failure("KeyError"))

\* C3 as stated: with N valid records train returns the insufficient-data
\* failure if and only if N < 5, and for every N >= 5 it proceeds to fitting
\* the candidate models.
C3_MinimumIsFiveRecords ==
    (tpc = "trained" /\ mValid) =>
        /\ (trainOut = Returned(InsufficientData)) <=> (mN < 5)
        /\ (mN >= 5) => tFitting

(***************************************************************************)
(* calculate_required_score and the report of display_goal_simulation.     *)
(* Grades and targets are whole points; weights are counted in halves, so  *)
(* that the form's step of 0.5 is the integer 1 and the weight 1.0 is 2.   *)
(* Every sum and product the function forms is then an integer, and the    *)
(* final quotient is kept as a fraction.                                   *)
(***************************************************************************)
MaxGrades == 2
MaxRemaining == 2
MaxTestWeight == 2

GradeValues == {40, 80, 90}
Targets == {0, 50, 90, 100}

\* A grade record: its grade, and its weight when the key is present.
GradeRecords ==
    [grade : GradeValues, hasWeight : {TRUE}, weight : {0, 2, 4}]
    \cup [grade : GradeValues, hasWeight : {FALSE}, weight : {0}]

RECURSIVE SeqsUpTo(_, _)
SeqsUpTo(S, n) ==
    IF n = 0 THEN {<<>>}
    ELSE LET shorter == SeqsUpTo(S, n - 1)
         IN  shorter \cup {Append(q, x) : q \in shorter, x \in S}

\* `g.get('weight', 1)`
GetWeight(g) == IF g.hasWeight THEN g.weight ELSE 2

\* `sum(g['grade'] * g.get('weight', 1) for g in grades_list)`
RECURSIVE WeightedSum(_)
WeightedSum(gs) ==
    IF gs = <<>> THEN 0
    ELSE WeightedSum(SubSeq(gs, 1, Len(gs) - 1)) + Last(gs).grade * GetWeight(Last(gs))

\* `sum(g.get('weight', 1) for g in grades_list)`
RECURSIVE TotalWeight(_)
TotalWeight(gs) ==
    IF gs = <<>> THEN 0
    ELSE TotalWeight(SubSeq(gs, 1, Len(gs) - 1)) + GetWeight(Last(gs))

\* `total_weight = current_total_weight + future_total_weight`
OverallWeightCurrentOnly(current_total_weight, future_total_weight) ==
    current_total_weight
OverallWeight(current_total_weight, future_total_weight) ==
    current_total_weight + future_total_weight

calculate_required_score(gs, target, remaining, weight) ==
    IF remaining <= 0 THEN NoScore
    ELSE LET current_weighted_sum == WeightedSum(gs)
             current_total_weight == TotalWeight(gs)
             future_total_weight == remaining * weight
             total_weight == OverallWeight(current_total_weight, future_total_weight)
             target_weighted_sum == target * total_weight
             required_weighted_sum == target_weighted_sum - current_weighted_sum
         IN  \* a division by zero raises ZeroDivisionError
             IF future_total_weight = 0 THEN ScoreRaised
             ELSE Score(required_weighted_sum, future_total_weight)

\* calculate_weighted_average (grade_prediction.py).
calculate_weighted_average(gs) ==
    IF gs = <<>> THEN Score(0, 1)
    ELSE IF TotalWeight(gs) > 0 THEN Score(WeightedSum(gs), TotalWeight(gs))
    ELSE Score(0, 1)

\* The sums over grade["weight"] itself: the records that carry the key.
RECURSIVE KeyedWeightedSum(_)
KeyedWeightedSum(gs) ==
    IF gs = <<>> THEN 0
    ELSE KeyedWeightedSum(SubSeq(gs, 1, Len(gs) - 1))
         + (IF Last(gs).hasWeight THEN Last(gs).grade * Last(gs).weight ELSE 0)

RECURSIVE KeyedTotalWeight(_)
KeyedTotalWeight(gs) ==
    IF gs = <<>> THEN 0
    ELSE KeyedTotalWeight(SubSeq(gs, 1, Len(gs) - 1))
         + (IF Last(gs).hasWeight THEN Last(gs).weight ELSE 0)

\* round(n/d, 2) for n >= 0 and d > 0, in hundredths: ties to even.
Round2(n, d) ==
    LET q == (100 * n) \div d
        r == (100 * n) % d
    IN  IF 2 * r < d THEN q
        ELSE IF 2 * r > d THEN q + 1
        ELSE IF q % 2 = 0 THEN q ELSE q + 1

\* calculate_average_grade (ai_grade_evaluation.py): grade["weight"] raises
\* KeyError on a record without the key; the result is rounded to 2 places.
calculate_average_grade(gs) ==
    IF gs = <<>> THEN Score(0, 1)
    ELSE IF \E i \in DOMAIN gs : ~gs[i].hasWeight THEN ScoreRaised
    ELSE IF KeyedTotalWeight(gs) > 0
         THEN Score(Round2(KeyedWeightedSum(gs), KeyedTotalWeight(gs)), 100)
    ELSE Score(0, 1)

\* The weighted average of display_statistics_summary (grade_analytics.py):
\* nothing for a subject without grades or a frame without a weight column;
\* otherwise the quotient of the two column sums, with no guard.
SummaryDivision(n, d) == IF d = 0 THEN ScoreNaN ELSE Score(n, d)

statistics_weighted_average(gs) ==
    IF gs = <<>> THEN NoScore
    ELSE IF \A i \in DOMAIN gs : ~gs[i].hasWeight THEN NoScore
    ELSE SummaryDivision(KeyedWeightedSum(gs), KeyedTotalWeight(gs))

\* Comparisons of a fraction with a positive denominator against a number.
FracGt(x, c) == x.num > c * x.den
FracLt(x, c) == x.num < c * x.den

\* `if required_score > 100`
IsImpossibleFrom100(x) == ~FracLt(x, 100)
IsImpossible(x) == FracGt(x, 100)

\* The report of display_goal_simulation for a required score.
Report(x) ==
    IF x.kind = "raise" THEN "exception"
    ELSE IF x.kind = "none" THEN "none"
    ELSE IF IsImpossible(x) THEN "impossible"
    ELSE IF FracLt(x, 0) THEN "achieved"
    ELSE "reachable"

InitScore ==
    /\ rFunc = "none" /\ rMax = 0 /\ rInit = 0 /\ rFactor = 0
    /\ attempt = 0 /\ wait_time = 0 /\ last_exception = None
    /\ rlog = <<>> /\ waits = <<>> /\ requests = <<>>
    /\ rpc = "idle" /\ rResult = None
    /\ mN = 0 /\ mValid = TRUE /\ best_model = None /\ best_model_name = None
    /\ tpc = "new" /\ trainOut = NotTrained /\ tFitting = FALSE
    /\ ppc = "idle" /\ pNum = 0 /\ pRows = 0
    /\ predictions = <<>> /\ outputs = <<>> /\ pOut = NoneResult
    /\ grades_list \in SeqsUpTo(GradeRecords, MaxGrades)
    /\ target_grade \in Targets
    /\ remaining_tests \in 0..MaxRemaining
    /\ test_weight \in 0..MaxTestWeight
    /\ spc = "input"
    /\ required_score = NoScore
    /\ verdict = "none"
    /\ averages = NoAverages
    /\ files = NoFiles /\ session_state = NoSession
    /\ dop = NoOp /\ before = NoPrev /\ nops = 0
    /\ subject_name = None /\ scaler = StandardScaler /\ feature_names = <<>>
    /\ ml_models = NoModels /\ ml_predictor = NoPredictor /\ lpc = "none"
    /\ lSubject = None /\ lWhen = "new" /\ lRet = FALSE /\ lOut = NoneResult
    /\ scores = <<>> /\ trend_slope = NoSlope
    /\ clock = 0 /\ backups = {} /\ bop = NoBackupOp /\ bcount = 0
    /\ fGrades = <<>> /\ fArgs = NoFilterArgs /\ fNow = NoDateTime
    /\ fOut = NoFilterOut

\* The call of calculate_required_score.
Calculate ==
    /\ spc = "input"
    /\ required_score' =
          calculate_required_score(grades_list, target_grade, remaining_tests, test_weight)
    /\ spc' = "calculated"
    /\ UNCHANGED <<grades_list, target_grade, remaining_tests, test_weight, verdict,
                   averages>>
    /\ UNCHANGED <<retryVars, mlVars, dataVars, persistVars, trendVars,
                   backupVars, filterVars>>

\* The page's report; the page is only rendered for a subject with grades
\* and a form value of at least one remaining test.
ReportRequired ==
    /\ spc = "calculated"
    /\ grades_list # <<>> /\ remaining_tests >= 1
    /\ verdict' = Report(required_score)
    /\ spc' = "reported"
    /\ UNCHANGED <<grades_list, target_grade, remaining_tests, test_weight,
                   required_score, averages>>
    /\ UNCHANGED <<retryVars, mlVars, dataVars, persistVars, trendVars,
                   backupVars, filterVars>>

\* The three pages compute their weighted average of the subject's grades.
ComputeAverages ==
    /\ ~averages.computed
    /\ averages' =
          [computed |-> TRUE,
           weighted_average |-> calculate_weighted_average(grades_list),
           average_grade |-> calculate_average_grade(grades_list),
           summary |-> statistics_weighted_average(grades_list)]
    /\ UNCHANGED <<grades_list, target_grade, remaining_tests, test_weight, spc,
                   required_score, verdict>>
    /\ UNCHANGED <<retryVars, mlVars, dataVars, persistVars, trendVars,
                   backupVars, filterVars>>

NextScore == Calculate \/ ReportRequired \/ ComputeAverages

SpecScore == InitScore /\ [][NextScore]_vars

(***************************************************************************)
(* Claims about the required-score solver (SpecScore).                     *)
(***************************************************************************)
\* The weight a record counts with, and the claim's S and W.
RecordWeight(g) == IF g.hasWeight THEN g.weight ELSE 2
RECURSIVE SumOver(_, _, _)
SumOver(gs, I, withGrade) ==
    IF I = {} THEN 0
    ELSE LET i == CHOOSE j \in I : TRUE
         IN  (IF withGrade THEN gs[i].grade ELSE 1) * RecordWeight(gs[i])
             + SumOver(gs, I \ {i}, withGrade)
SumS == SumOver(grades_list, DOMAIN grades_list, TRUE)
SumW == SumOver(grades_list, DOMAIN grades_list, FALSE)
FutureW == remaining_tests * test_weight

\* C9: for n > 0 and w > 0 the result x is a number with
\* x * (n*w) = T*(W + n*w) - S, that is S + n*w*x = T*(W + n*w);
\* for n <= 0 the result is None.
C9_ClosedForm ==
    spc \in {"calculated", "reported"} =>
        /\ (remaining_tests > 0 /\ test_weight > 0) =>
              /\ required_score.kind = "num"
              /\ required_score.den > 0
              /\ required_score.num * FutureW
                   = (target_grade * (SumW + FutureW) - SumS) * required_score.den
              /\ SumS * required_score.den + FutureW * required_score.num
                   = target_grade * (SumW + FutureW) * required_score.den
        /\ (remaining_tests <= 0) => required_score = NoScore

C9_Witness ==
    /\ spc = "calculated"
    /\ Len(grades_list) = 2 /\ SumS = 520 /\ SumW = 6
    /\ target_grade = 50 /\ remaining_tests = 2 /\ test_weight = 1
    /\ required_score = Score(-120, 2)

\* The spec's boundary case: grades (80, weight 1) and (90, weight 2),
\* target 90, one remaining test of weight 1.
BoundaryCase ==
    /\ grades_list = <<[grade |-> 80, hasWeight |-> TRUE, weight |-> 2],
                       [grade |-> 90, hasWeight |-> TRUE, weight |-> 4]>>
    /\ target_grade = 90 /\ remaining_tests = 1 /\ test_weight = 2

\* C10: the page reports "impossible" exactly when the required score is a
\* number strictly above 100; in the boundary case the required score is
\* exactly 100 and the target is reported as reachable.
C10_ImpossibleIffAbove100 ==
    spc = "reported" =>
        /\ (verdict = "impossible") <=>
              (required_score.kind = "num"
                 /\ required_score.num > 100 * required_score.den)
        /\ BoundaryCase =>
              /\ required_score.kind = "num"
              /\ required_score.num = 100 * required_score.den
              /\ verdict = "reachable"

C10_Witness ==
    /\ spc = "reported" /\ BoundaryCase
    /\ required_score = Score(200, 2) /\ verdict = "reachable"

\* The current weighted average S/W of the page (0 when W = 0).
CurrentAverage == calculate_weighted_average(grades_list)

\* x <= the current weighted average, for fractions with positive denominators.
FracLe(x, y) == x.num * y.den <= y.num * x.den

\* C11 as stated: the page reports "already achieved" whenever the required
\* score is a number not above the current weighted average.
C11_AchievedWhenAtMostAverage ==
    (spc = "reported" /\ required_score.kind = "num"
       /\ FracLe(required_score, CurrentAverage)) =>
        verdict = "achieved"

AllWeighted == \A i \in DOMAIN grades_list : grades_list[i].hasWeight

\* r is the number SumS/SumW.
IsQuotient(r) == r.kind = "num" /\ r.num * SumW = SumS * r.den
\* r is the number SumS/SumW rounded to two places.
IsRoundedQuotient(r) ==
    /\ r.kind = "num" /\ r.den = 100
    /\ 2 * (100 * SumS - r.num * SumW) <= SumW
    /\ 2 * (r.num * SumW - 100 * SumS) <= SumW
IsZero(r) == r.kind = "num" /\ r.num = 0

\* C12 as stated, for lists whose records all carry a weight: each of the
\* three computations yields S/W when W > 0 (calculate_average_grade to two
\* places) and 0 when W = 0 or the list is empty (the summary shows nothing
\* for an empty list).
C12_WeightedAverageGuarded ==
    (averages.computed /\ AllWeighted) =>
        /\ SumW > 0 =>
              /\ IsQuotient(averages.weighted_average)
              /\ IsRoundedQuotient(averages.average_grade)
              /\ IsQuotient(averages.summary)
        /\ SumW = 0 =>
              /\ IsZero(averages.weighted_average)
              /\ IsZero(averages.average_grade)
              /\ grades_list # <<>> => IsZero(averages.summary)

(***************************************************************************)
(* The data layer (data.py): the loaders and savers of the six entities.   *)
(* initialize_session_state calls the loaders in a fixed order, each only  *)
(* when its key is absent from st.session_state; an exception a loader     *)
(* lets escape ends the script run.                                        *)
(***************************************************************************)
\* `datetime.now().strftime("%Y-%m-%d %H:%M:%S")`: the readings of the clock.
Times == {"2025-06-01 09:00:00", "2025-06-02 18:30:00"}

\* dict helpers: `key in d`, `d.get(key, default)`, `d[key] = val`, `del d[key]`
Has(d, key) == key \in DOMAIN d.dict
Get(d, key, default) == IF Has(d, key) THEN d.dict[key] ELSE default
Put(d, key, val) ==
    JDict([x \in DOMAIN d.dict \cup {key} |-> IF x = key THEN val ELSE d.dict[x]])
Del(d, key) == JDict([x \in DOMAIN d.dict \ {key} |-> d.dict[x]])

\* `json.load(f)`: JSONDecodeError on malformed text.
json_load(file) ==
    IF file.state = "malformed" THEN Raised("JSONDecodeError")
    ELSE Returned(file.data)

\* `json.dump(value, f)` on a file opened with 'w'.
json_dump(fs, fname, value) == [fs EXCEPT ![fname] = Json(value)]

\* The loop body of normalize_goals_data: the five fields, with defaults
\* (the Japanese defaults 不明な科目, 短期, 進行中 are written in English).
NormalizeItem(item) ==
    JDict([subject   |-> Get(item, "subject", JStr("unknown subject")),
           goal_type |-> Get(item, "goal_type", JStr("short-term")),
           goal      |-> Get(item, "goal", JStr("")),
           deadline  |-> Get(item, "deadline", JStr("")),
           status    |-> Get(item, "status", JStr("in progress"))])

\* The loop of normalize_goals_data: items that are no dict are skipped.
RECURSIVE NormalizeItems(_)
NormalizeItems(l) ==
    IF l = <<>> THEN <<>>
    ELSE LET rest == NormalizeItems(SubSeq(l, 1, Len(l) - 1))
             item == Last(l)
         IN  IF ~IsDict(item) THEN rest ELSE Append(rest, NormalizeItem(item))

normalize_goals_data(data) ==
    IF ~IsList(data) THEN Raised("ValueError")
    ELSE Returned(JList(NormalizeItems(data.list)))

\* The default profile of load_user_profile.
DefaultProfile(now) ==
    JDict([age |-> JNull, education_level |-> JNull,
           created_at |-> JStr(now), updated_at |-> JNull])

\* `st.session_state.user_profile["updated_at"] = now` of save_user_profile.
StampCreatedToo(profile, now) ==
    Put(Put(profile, "updated_at", JStr(now)), "created_at", JStr(now))
StampUpdatedAt(profile, now) == Put(profile, "updated_at", JStr(now))

\* The order of the loaders in initialize_session_state.
LoaderOrder ==
    <<"subjects", "goals", "progress", "grades", "user_profile", "reminders">>
FileOf(key) ==
    CASE key = "subjects"     -> "subjects.json"
      [] key = "goals"        -> "goals.json"
      [] key = "progress"     -> "progress.json"
      [] key = "grades"       -> "grades.json"
      [] key = "user_profile" -> "user_profile.json"
      [] key = "reminders"    -> "reminders.json"

\* `if key not in st.session_state` for the loader at position i, reached
\* only when every earlier loader returned.
LoaderDue(i) ==
    /\ dop.result.kind # "raise"
    /\ ~session_state[LoaderOrder[i]].set
    /\ \A j \in 1..(i - 1) : session_state[LoaderOrder[j]].set

Op(name, arg, result) == [name |-> name, arg |-> arg, result |-> result]

\* What every data-layer operation records.
Record(op) ==
    /\ dop' = op
    /\ before' = [files |-> files, session_state |-> session_state]
    /\ nops' = nops + 1
    /\ UNCHANGED <<retryVars, mlVars, simVars, persistVars, trendVars,
                   backupVars, filterVars>>

\* The shape shared by load_subjects, load_progress, load_grades and
\* load_reminders: the file's value when it exists, else the empty value.
LoadPlain(key, empty) ==
    LET file == files[FileOf(key)]
        name == "load_" \o key
    IN  /\ IF file.state = "missing"
           THEN /\ session_state' = [session_state EXCEPT ![key] = Bound(empty)]
                /\ Record(Op(name, <<>>, Returned(None)))
           ELSE IF json_load(file).kind = "raise"
           THEN /\ UNCHANGED session_state
                /\ Record(Op(name, <<>>, json_load(file)))
           ELSE /\ session_state' =
                      [session_state EXCEPT ![key] = Bound(json_load(file).val)]
                /\ Record(Op(name, <<>>, Returned(None)))
        /\ UNCHANGED files

load_subjects == LoaderDue(1) /\ LoadPlain("subjects", JList(<<>>))

load_goals ==
    /\ LoaderDue(2)
    /\ LET file == files["goals.json"]
           loaded == json_load(file)
       IN  IF file.state = "missing"
           THEN /\ session_state' = [session_state EXCEPT !.goals = Bound(JList(<<>>))]
                /\ Record(Op("load_goals", <<>>, Returned(None)))
           ELSE IF loaded.kind = "raise"
           THEN /\ UNCHANGED session_state
                /\ Record(Op("load_goals", <<>>, loaded))
           ELSE IF normalize_goals_data(loaded.val).kind = "raise"
           THEN /\ UNCHANGED session_state
                /\ Record(Op("load_goals", <<>>, normalize_goals_data(loaded.val)))
           ELSE /\ session_state' =
                      [session_state EXCEPT
                          !.goals = Bound(normalize_goals_data(loaded.val).val)]
                /\ Record(Op("load_goals", <<>>, Returned(None)))
    /\ UNCHANGED files

load_progress == LoaderDue(3) /\ LoadPlain("progress", JDict(<<>>))

load_grades == LoaderDue(4) /\ LoadPlain("grades", JDict(<<>>))

load_user_profile ==
    /\ LoaderDue(5)
    /\ \E now \in Times : LoadPlain("user_profile", DefaultProfile(now))

load_reminders == LoaderDue(6) /\ LoadPlain("reminders", JList(<<>>))

\* `json.dump(st.session_state.<key>, f)` into the key's file.
SaveKey(fs, ss, key) == json_dump(fs, FileOf(key), ss[key].val)

\* A saver called directly after its loader returned, nothing in between.
JustLoaded(key) == dop.name = "load_" \o key /\ dop.result.kind = "return"

SavePlain(key) ==
    /\ files' = SaveKey(files, session_state, key)
    /\ UNCHANGED session_state
    /\ Record(Op("save_" \o key, <<>>, Returned(None)))

save_subjects == JustLoaded("subjects") /\ SavePlain("subjects")
save_goals == JustLoaded("goals") /\ SavePlain("goals")
save_progress == JustLoaded("progress") /\ SavePlain("progress")
save_grades == JustLoaded("grades") /\ SavePlain("grades")

save_user_profile ==
    /\ JustLoaded("user_profile")
    /\ \E now \in Times :
          LET stamped == [session_state EXCEPT
                             !.user_profile =
                                 Bound(StampUpdatedAt(session_state.user_profile.val, now))]
          IN  /\ session_state' = stamped
              /\ files' = SaveKey(files, stamped, "user_profile")
    /\ Record(Op("save_user_profile", <<>>, Returned(None)))

save_reminders == JustLoaded("reminders") /\ SavePlain("reminders")

\* The records the application writes.
SubjectNames == {"math", "english", "science"}

\* record_grade: grade and weight in hundredths (8000 is 80 points, 100 is 1.0);
\* the type given is one of the two the form offers.
GradeRecord(now, type, grade, weight) ==
    JDict([date |-> JStr(now), type |-> JStr(type), grade |-> Num(grade),
           weight |-> Num(weight), comment |-> JStr("")])

\* record_progress, with the study time in hundredths of an hour.
ProgressRecord(now) ==
    JDict([date |-> JStr(now), time |-> Num(150), task |-> JStr("exercises"),
           motivation |-> JStr("high")])

\* set_goals: the five fields of a goal.
GoalRecord(subject) ==
    JDict([subject |-> JStr(subject), goal_type |-> JStr("short-term"),
           goal |-> JStr("pass the exam"), deadline |-> JStr("2025-07-01"),
           status |-> JStr("in progress")])

\* create_reminder: the fields of a new reminder.
ReminderRecord(subject, now) ==
    JDict([subject |-> JStr(subject), type |-> JStr("exam"),
           date |-> JStr("2025-07-01"), text |-> JStr("revise"),
           completed |-> JBool(FALSE), snoozed_until |-> JNull,
           is_recurring |-> JBool(FALSE), recurring_interval |-> JNull,
           created_at |-> JStr(now)])

\* A profile as update_user_profile leaves it: age in hundredths of a year.
ProfileRecord(created, updated) ==
    JDict([age |-> Num(1600), education_level |-> JStr("high school"),
           created_at |-> JStr(created), updated_at |-> updated])

\* What each file may hold when the application starts.
SubjectsFiles ==
    {Missing, Malformed, Json(JList(<<>>)),
     Json(JList(<<JStr("math"), JStr("english")>>))}
GoalsFiles ==
    {Missing, Malformed,
     Json(JList(<<GoalRecord("math")>>)),
     \* a record of another version: no deadline, one more key
     Json(JList(<<JDict([subject |-> JStr("math"), goal |-> JStr("pass the exam"),
                         priority |-> JStr("high")])>>)),
     \* an item that is no dict
     Json(JList(<<GoalRecord("math"), JStr("pass the exam")>>)),
     \* the old format: a dict by subject
     Json(JDict([math |-> JList(<<JStr("pass the exam")>>)]))}
ProgressFiles ==
    {Missing, Malformed, Json(JDict(<<>>)),
     Json(JDict([math |-> JList(<<ProgressRecord("2025-06-01 09:00:00")>>)]))}
GradesFiles ==
    {Missing, Malformed, Json(JDict(<<>>)),
     Json(JDict([math |->
        JList(<<GradeRecord("2025-06-01 09:00:00", "test", 8000, 100)>>)]))}
ProfileFiles ==
    {Missing, Malformed,
     Json(ProfileRecord("2025-06-01 09:00:00", JNull)),
     Json(ProfileRecord("2025-06-01 09:00:00", JStr("2025-06-01 09:00:00")))}
RemindersFiles ==
    {Missing, Malformed,
     Json(JList(<<ReminderRecord("math", "2025-06-01 09:00:00")>>))}

InitStore ==
    /\ rFunc = "none" /\ rMax = 0 /\ rInit = 0 /\ rFactor = 0
    /\ attempt = 0 /\ wait_time = 0 /\ last_exception = None
    /\ rlog = <<>> /\ waits = <<>> /\ requests = <<>>
    /\ rpc = "idle" /\ rResult = None
    /\ mN = 0 /\ mValid = TRUE /\ best_model = None /\ best_model_name = None
    /\ tpc = "new" /\ trainOut = NotTrained /\ tFitting = FALSE
    /\ ppc = "idle" /\ pNum = 0 /\ pRows = 0
    /\ predictions = <<>> /\ outputs = <<>> /\ pOut = NoneResult
    /\ grades_list = <<>> /\ target_grade = 0 /\ remaining_tests = 0
    /\ test_weight = 0 /\ spc = "idle" /\ required_score = NoScore
    /\ verdict = "none" /\ averages = NoAverages
    /\ \E s \in SubjectsFiles, g \in GoalsFiles, p \in ProgressFiles,
          r \in GradesFiles, u \in ProfileFiles, m \in RemindersFiles :
          files = [f \in FileNames |->
                     CASE f = "subjects.json" -> s
                       [] f = "goals.json" -> g
                       [] f = "progress.json" -> p
                       [] f = "grades.json" -> r
                       [] f = "user_profile.json" -> u
                       [] f = "reminders.json" -> m]
    /\ session_state = NoSession
    /\ dop = NoOp
    /\ before = [files |-> files, session_state |-> NoSession]
    /\ nops = 0
    /\ subject_name = None /\ scaler = StandardScaler /\ feature_names = <<>>
    /\ ml_models = NoModels /\ ml_predictor = NoPredictor /\ lpc = "none"
    /\ lSubject = None /\ lWhen = "new" /\ lRet = FALSE /\ lOut = NoneResult
    /\ scores = <<>> /\ trend_slope = NoSlope
    /\ clock = 0 /\ backups = {} /\ bop = NoBackupOp /\ bcount = 0
    /\ fGrades = <<>> /\ fArgs = NoFilterArgs /\ fNow = NoDateTime
    /\ fOut = NoFilterOut

NextStore ==
    \/ load_subjects \/ load_goals \/ load_progress
    \/ load_grades \/ load_user_profile \/ load_reminders
    \/ save_subjects \/ save_goals \/ save_progress
    \/ save_grades \/ save_user_profile \/ save_reminders

SpecStore == InitStore /\ [][NextStore]_vars

(***************************************************************************)
(* Claims about the loaders and savers.                                    *)
(***************************************************************************)
Entities == {"subjects", "goals", "progress", "grades", "user_profile", "reminders"}

\* The saver of `key` just ran, directly after its loader read an existing file.
Resaved(key) ==
    /\ dop.name = "save_" \o key
    /\ before.files[FileOf(key)].state = "json"
FileBefore(key) == before.files[FileOf(key)].data
FileNow(key) == files[FileOf(key)].data

GoalFields == {"subject", "goal_type", "goal", "deadline", "status"}
\* A goals file in the format set_goals writes.
Canonical(data) ==
    /\ IsList(data)
    /\ \A i \in 1..Len(data.list) :
          IsDict(data.list[i]) /\ DOMAIN data.list[i].dict = GoalFields

\* C13 as amended: loading an existing file and saving it at once leaves the
\* subjects, grades, progress and reminders files with the same value; the
\* goals file holds the normalised list, which is the same value when every
\* item is a dict of exactly the five goal fields; the user profile keeps
\* every field except updated_at, which becomes the time of the save.
C13_LoadSaveRoundTrip ==
    /\ \A key \in {"subjects", "progress", "grades", "reminders"} :
          Resaved(key) => FileNow(key) = FileBefore(key)
    /\ Resaved("goals") =>
          /\ FileNow("goals") = normalize_goals_data(FileBefore("goals")).val
          /\ Canonical(FileBefore("goals")) => FileNow("goals") = FileBefore("goals")
    /\ Resaved("user_profile") =>
          /\ Del(FileNow("user_profile"), "updated_at")
                = Del(FileBefore("user_profile"), "updated_at")
          /\ \E now \in Times : Get(FileNow("user_profile"), "updated_at", JNull) = JStr(now)

\* A profile was loaded and saved and its file differs in updated_at only;
\* a goals file of another version was loaded and saved in another behaviour.
C13_Witness ==
    /\ Resaved("user_profile")
    /\ FileNow("user_profile") # FileBefore("user_profile")

\* C13 as stated: load then save leaves every entity file with the same
\* records, fields and values.
C13_Original ==
    \A key \in Entities : Resaved(key) => FileNow(key) = FileBefore(key)

IsLoad(key) == dop.name = "load_" \o key
EmptyOrDefault(key, val) ==
    CASE key \in {"subjects", "goals", "reminders"} -> val = JList(<<>>)
      [] key \in {"progress", "grades"} -> val = JDict(<<>>)
      [] key = "user_profile" -> \E now \in Times : val = DefaultProfile(now)

\* C14: a loader whose file is missing or holds malformed JSON returns
\* without raising and leaves its session entry at the empty or default value.
C14_LoadersNeverRaise ==
    \A key \in Entities :
        (IsLoad(key) /\ before.files[FileOf(key)].state \in {"missing", "malformed"}) =>
            /\ dop.result.kind = "return"
            /\ session_state[key].set
            /\ EmptyOrDefault(key, session_state[key].val)

(***************************************************************************)
(* The pages that change the data: registering and deleting subjects,      *)
(* renaming a subject in bulk, recording grades and progress, setting      *)
(* goals and reminders. Each handler is a function of the files and the    *)
(* session state it starts from and yields both and what the call did.     *)
(***************************************************************************)
MaxOps == 4
MaxItems == 1

Outcome(fs, ss, result) == [files |-> fs, session_state |-> ss, result |-> result]
SetVal(ss, key, v) == [ss EXCEPT ![key] = Bound(v)]

\* `x in l`, `l.index(x)` and `l.remove(x)` on a list
InSeq(x, l) == \E i \in 1..Len(l) : l[i] = x
IndexOf(x, l) == CHOOSE i \in 1..Len(l) : l[i] = x /\ \A j \in 1..(i - 1) : l[j] # x
Remove(x, l) ==
    LET i == IndexOf(x, l) IN SubSeq(l, 1, i - 1) \o SubSeq(l, i + 1, Len(l))

\* add_subject: a non-empty name that is not in the list yet is appended.
add_subject(fs, ss, subject) ==
    IF subject # "" /\ ~InSeq(JStr(subject), ss.subjects.val.list)
    THEN LET ss2 == SetVal(ss, "subjects",
                           JList(Append(ss.subjects.val.list, JStr(subject))))
         IN  Outcome(SaveKey(fs, ss2, "subjects"), ss2, Returned("True"))
    ELSE Outcome(fs, ss, Returned("False"))

\* `if subject in st.session_state.<key>: del ...[subject]; save_<key>()`
\* for the two dicts keyed by subject.
DropKey(o, key, subject) ==
    IF Has(o.session_state[key].val, subject)
    THEN LET ss2 == SetVal(o.session_state, key, Del(o.session_state[key].val, subject))
         IN  Outcome(SaveKey(o.files, ss2, key), ss2, o.result)
    ELSE o

\* delete_subject. st.session_state.goals is a list of dicts, so the test
\* `subject in st.session_state.goals` looks for the name among the items;
\* `del` with a string index on a list raises TypeError.
delete_subject(fs, ss, subject) ==
    IF ~InSeq(JStr(subject), ss.subjects.val.list)
    THEN Outcome(fs, ss, Returned("False"))
    ELSE LET ss1 == SetVal(ss, "subjects", JList(Remove(JStr(subject), ss.subjects.val.list)))
             o1 == Outcome(SaveKey(fs, ss1, "subjects"), ss1, Returned("True"))
         IN  IF InSeq(JStr(subject), ss1.goals.val.list)
             THEN Outcome(o1.files, o1.session_state, Raised("TypeError"))
             ELSE DropKey(DropKey(o1, "progress", subject), "grades", subject)

\* The loop of manage_subjects over the selected rows; an exception ends it.
RECURSIVE DeleteSelected(_, _)
DeleteSelected(o, selected) ==
    IF selected = <<>> \/ o.result.kind = "raise" THEN o
    ELSE DeleteSelected(delete_subject(o.files, o.session_state, Head(selected)),
                        Tail(selected))

\* `sum(1 for r in reminders if r.get('subject') == old_subject)`
RECURSIVE CountSubject(_, _)
CountSubject(l, subject) ==
    IF l = <<>> THEN 0
    ELSE CountSubject(Tail(l), subject)
            + (IF Get(Head(l), "subject", JNull) = JStr(subject) THEN 1 ELSE 0)

\* `for x in l: if x.get('subject') == old: x['subject'] = new`
RenameIn(l, old, new) ==
    [i \in 1..Len(l) |->
        IF Get(l[i], "subject", JNull) = JStr(old)
        THEN Put(l[i], "subject", JStr(new)) ELSE l[i]]

\* `d[new] = d.pop(old)` when old is a key of d
MoveKey(d, old, new) == IF Has(d, old) THEN Put(Del(d, old), new, d.dict[old]) ELSE d

\* The reminders bulk_edit_subject_names reads from reminders.json; the
\* bare except leaves them alone when the file cannot be read.
ReadableReminders(fs) ==
    fs["reminders.json"].state = "json" /\ IsList(fs["reminders.json"].data)

\* The rename of the subject list: `subjects[idx] = new_subject`.
RenameSubject(subjects, old, new) ==
    [subjects EXCEPT ![IndexOf(JStr(old), subjects)] = JStr(new)]

\* bulk_edit_subject_names with the confirmation ticked and the button
\* pressed: the preview normalises the goals, and nothing else happens when
\* no record refers to the old name.
bulk_edit_subject_names(fs, ss, old, new) ==
    LET normalized == normalize_goals_data(ss.goals.val)
        count == Len(Get(ss.grades.val, old, JList(<<>>)).list)
                 + Len(Get(ss.progress.val, old, JList(<<>>)).list)
                 + (IF ReadableReminders(fs)
                    THEN CountSubject(fs["reminders.json"].data.list, old) ELSE 0)
                 + CountSubject(normalized.val.list, old)
        ssN == SetVal(ss, "goals", normalized.val)
        fs1 == IF ReadableReminders(fs)
               THEN json_dump(fs, "reminders.json",
                        JList(RenameIn(fs["reminders.json"].data.list, old, new)))
               ELSE fs
        ss1 == [ss EXCEPT
                   !.subjects = Bound(JList(RenameSubject(ss.subjects.val.list, old, new))),
                   !.grades = Bound(MoveKey(ss.grades.val, old, new)),
                   !.progress = Bound(MoveKey(ss.progress.val, old, new)),
                   !.goals = Bound(JList(RenameIn(normalized.val.list, old, new)))]
        saved == SaveKey(SaveKey(SaveKey(SaveKey(fs1, ss1, "subjects"),
                                         ss1, "grades"), ss1, "progress"), ss1, "goals")
    IN  IF normalized.kind = "raise" THEN Outcome(fs, ss, normalized)
        ELSE IF count = 0 THEN Outcome(fs, ssN, Returned("unaffected"))
        ELSE Outcome(saved, ss1, Returned("renamed"))

\* `d[subject].append(record)`, creating the list first when the key is new
AppendUnder(d, subject, record) ==
    Put(d, subject, JList(Append(Get(d, subject, JList(<<>>)).list, record)))

record_grade(fs, ss, subject, record) ==
    LET ss2 == SetVal(ss, "grades", AppendUnder(ss.grades.val, subject, record))
    IN  Outcome(SaveKey(fs, ss2, "grades"), ss2, Returned("True"))

record_progress(fs, ss, subject, record) ==
    LET ss2 == SetVal(ss, "progress", AppendUnder(ss.progress.val, subject, record))
    IN  Outcome(SaveKey(fs, ss2, "progress"), ss2, Returned("True"))

\* set_goals with the button pressed: the goals are normalised when the page
\* is drawn, the new goal appended and the list saved.
set_goals(fs, ss, subject) ==
    LET normalized == normalize_goals_data(ss.goals.val)
        ss2 == SetVal(ss, "goals", JList(Append(normalized.val.list, GoalRecord(subject))))
    IN  IF normalized.kind = "raise" THEN Outcome(fs, ss, normalized)
        ELSE Outcome(SaveKey(fs, ss2, "goals"), ss2, Returned(None))

\* create_reminder with the button pressed: appended in the session and the
\* session's list written to reminders.json.
create_reminder(fs, ss, subject, now) ==
    LET ss2 == SetVal(ss, "reminders",
                      JList(Append(ss.reminders.val.list, ReminderRecord(subject, now))))
    IN  Outcome(SaveKey(fs, ss2, "reminders"), ss2, Returned(None))

\* The state initialize_session_state leaves when no file exists yet.
FreshSession(now) ==
    [key \in SessionKeys |->
        CASE key \in {"subjects", "goals", "reminders"} -> Bound(JList(<<>>))
          [] key \in {"progress", "grades"} -> Bound(JDict(<<>>))
          [] key = "user_profile" -> Bound(DefaultProfile(now))]

InitData ==
    /\ rFunc = "none" /\ rMax = 0 /\ rInit = 0 /\ rFactor = 0
    /\ attempt = 0 /\ wait_time = 0 /\ last_exception = None
    /\ rlog = <<>> /\ waits = <<>> /\ requests = <<>>
    /\ rpc = "idle" /\ rResult = None
    /\ mN = 0 /\ mValid = TRUE /\ best_model = None /\ best_model_name = None
    /\ tpc = "new" /\ trainOut = NotTrained /\ tFitting = FALSE
    /\ ppc = "idle" /\ pNum = 0 /\ pRows = 0
    /\ predictions = <<>> /\ outputs = <<>> /\ pOut = NoneResult
    /\ grades_list = <<>> /\ target_grade = 0 /\ remaining_tests = 0
    /\ test_weight = 0 /\ spc = "idle" /\ required_score = NoScore
    /\ verdict = "none" /\ averages = NoAverages
    /\ files = NoFiles
    /\ \E now \in Times : session_state = FreshSession(now)
    /\ dop = NoOp
    /\ before = [files |-> files, session_state |-> session_state]
    /\ nops = 0
    /\ subject_name = None /\ scaler = StandardScaler /\ feature_names = <<>>
    /\ ml_models = NoModels /\ ml_predictor = NoPredictor /\ lpc = "none"
    /\ lSubject = None /\ lWhen = "new" /\ lRet = FALSE /\ lOut = NoneResult
    /\ scores = <<>> /\ trend_slope = NoSlope
    /\ clock = 0 /\ backups = {} /\ bop = NoBackupOp /\ bcount = 0
    /\ fGrades = <<>> /\ fArgs = NoFilterArgs /\ fNow = NoDateTime
    /\ fOut = NoFilterOut

\* A handler ran: the files and the session state are what it left.
Apply(name, arg, o) ==
    /\ files' = o.files
    /\ session_state' = o.session_state
    /\ Record(Op(name, arg, o.result))

\* The names a selectbox over st.session_state.subjects offers.
Offered == {session_state.subjects.val.list[i].str :
               i \in 1..Len(session_state.subjects.val.list)}

\* The subject page: the text typed may be empty or any name.
AddSubject ==
    /\ nops < MaxOps
    /\ \E subject \in SubjectNames \cup {""} :
          Apply("add_subject", <<subject>>, add_subject(files, session_state, subject))

\* manage_subjects: the rows ticked, in the order of the table.
ManageSubjects ==
    /\ nops < MaxOps
    /\ \E ticked \in (SUBSET Offered) \ {{}} :
          LET Ticked(x) == x.str \in ticked
              selected == [i \in 1..Len(SelectSeq(session_state.subjects.val.list, Ticked)) |->
                              SelectSeq(session_state.subjects.val.list, Ticked)[i].str]
          IN  Apply("delete_subject", selected,
                    DeleteSelected(Outcome(files, session_state, Returned("True")),
                                   selected))

BulkEditSubjectNames ==
    /\ nops < MaxOps
    /\ \E old \in Offered, new \in SubjectNames :
          Apply("bulk_edit_subject_names", <<old, new>>,
                bulk_edit_subject_names(files, session_state, old, new))

RecordGrade ==
    /\ nops < MaxOps
    /\ \E subject \in Offered, now \in Times :
          /\ Len(Get(session_state.grades.val, subject, JList(<<>>)).list) < MaxItems
          /\ Apply("record_grade", <<subject>>,
                   record_grade(files, session_state, subject,
                                GradeRecord(now, "test", 8000, 100)))

RecordProgress ==
    /\ nops < MaxOps
    /\ \E subject \in Offered, now \in Times :
          /\ Len(Get(session_state.progress.val, subject, JList(<<>>)).list) < MaxItems
          /\ Apply("record_progress", <<subject>>,
                   record_progress(files, session_state, subject, ProgressRecord(now)))

SetGoals ==
    /\ nops < MaxOps
    /\ Len(session_state.goals.val.list) < MaxItems
    /\ \E subject \in Offered :
          Apply("set_goals", <<subject>>, set_goals(files, session_state, subject))

CreateReminder ==
    /\ nops < MaxOps
    /\ Len(session_state.reminders.val.list) < MaxItems
    /\ \E subject \in Offered, now \in Times :
          Apply("create_reminder", <<subject>>,
                create_reminder(files, session_state, subject, now))

NextData ==
    \/ AddSubject \/ ManageSubjects \/ BulkEditSubjectNames
    \/ RecordGrade \/ RecordProgress \/ SetGoals \/ CreateReminder

SpecData == InitData /\ [][NextData]_vars

(***************************************************************************)
(* Claims about subjects and the data that refers to them.                 *)
(***************************************************************************)
\* C15: no subject name occurs twice in st.session_state.subjects, whatever
\* sequence of add_subject, delete_subject and bulk renames ran.
C15_SubjectNamesUnique ==
    \A i, j \in 1..Len(session_state.subjects.val.list) :
        i # j => session_state.subjects.val.list[i] # session_state.subjects.val.list[j]

\* Whether a JSON value of the data layer still mentions subject s: as a key
\* of the grades or progress dict, or as the subject of a goal or reminder.
KeyedBy(val, s) == IsDict(val) /\ Has(val, s)
Mentions(val, s) == IsList(val) /\ CountSubject(val.list, s) > 0
FileValue(fname) == IF files[fname].state = "json" THEN files[fname].data ELSE JNull

\* C16: once delete_subject(s) returned True, neither the session state nor
\* the JSON files hold a grade list, progress list, goal or reminder of s.
C16_DeleteRemovesRelatedData ==
    (dop.name = "delete_subject" /\ dop.result = Returned("True")) =>
        \A i \in 1..Len(dop.arg) :
            /\ ~KeyedBy(session_state.grades.val, dop.arg[i])
            /\ ~KeyedBy(session_state.progress.val, dop.arg[i])
            /\ ~Mentions(session_state.goals.val, dop.arg[i])
            /\ ~Mentions(session_state.reminders.val, dop.arg[i])
            /\ ~KeyedBy(FileValue("grades.json"), dop.arg[i])
            /\ ~KeyedBy(FileValue("progress.json"), dop.arg[i])
            /\ ~Mentions(FileValue("goals.json"), dop.arg[i])
            /\ ~Mentions(FileValue("reminders.json"), dop.arg[i])

(***************************************************************************)
(* DataIntegrityManager.check_and_repair_all_data (data_integrity.py).     *)
(* Numbers are in hundredths: Num(10000) is 100 points, Num(100) is the    *)
(* weight 1.0, Num(2400) is 24 hours.                                      *)
(***************************************************************************)
MaxChecks == 2

\* `datetime.now().strftime('%Y-%m-%d')`, and the strings that
\* `datetime.strptime(s, '%Y-%m-%d')` accepts.
Days == {"2025-06-01", "2025-06-02", "2025-07-01"}
Today == {"2025-06-01", "2025-06-02"}

\* `float(s)` of a string: the texts of the model that Python parses.
ParseFloat(s) ==
    CASE s = "85"  -> [ok |-> TRUE, val |-> Num(8500)]
      [] s = "2"   -> [ok |-> TRUE, val |-> Num(200)]
      [] s = "nan" -> [ok |-> TRUE, val |-> NaN]
      [] OTHER     -> [ok |-> FALSE, val |-> NaN]

\* `float(x)`: ok is FALSE where Python raises ValueError or TypeError.
ToFloat(x) ==
    IF IsNumber(x) THEN [ok |-> TRUE, val |-> x]
    ELSE IF IsBool(x) THEN [ok |-> TRUE, val |-> IF x.bool THEN Num(100) ELSE Num(0)]
    ELSE IF IsStr(x) THEN ParseFloat(x.str)
    ELSE [ok |-> FALSE, val |-> NaN]

\* `int(f)` of a float that is not negative: truncation; ValueError for NaN.
ToInt(f) ==
    IF f.k = "num" THEN [ok |-> TRUE, val |-> Num((f.v \div 100) * 100)]
    ELSE [ok |-> FALSE, val |-> NaN]

\* `not x`
Falsy(x) ==
    \/ IsNull(x)
    \/ IsBool(x) /\ ~x.bool
    \/ IsStr(x) /\ x.str = ""
    \/ IsList(x) /\ x.list = <<>>
    \/ IsDict(x) /\ DOMAIN x.dict = {}
    \/ IsNumber(x) /\ x = Num(0)

\* `weight_value <= 0`
NotPositive(w) == FloatLt(w, Num(0)) \/ w = Num(0)

\* The four repairs of _repair_grade_record, each yielding the field's value.
RepairedGrade(record) ==
    IF ~Has(record, "grade") \/ IsNull(record.dict.grade) THEN Num(0)
    ELSE LET grade_value == ToFloat(record.dict.grade)
         IN  IF ~grade_value.ok THEN Num(0)
             ELSE IF FloatLt(grade_value.val, Num(0)) THEN Num(0)
             ELSE IF FloatGt(grade_value.val, Num(10000)) THEN Num(10000)
             ELSE IF ToInt(grade_value.val).ok THEN ToInt(grade_value.val).val
             ELSE Num(0)

RepairedDate(record, today) ==
    IF ~Has(record, "date") \/ Falsy(record.dict.date) THEN JStr(today)
    ELSE IF IsStr(record.dict.date) /\ record.dict.date.str \notin Days THEN JStr(today)
    ELSE record.dict.date

RepairedType(record) ==
    IF ~Has(record, "type") THEN JStr("test")
    ELSE IF record.dict.type \notin {JStr("test"), JStr("assignment")} THEN JStr("test")
    ELSE record.dict.type

RepairedWeight(record) ==
    IF ~Has(record, "weight") THEN Num(100)
    ELSE LET weight_value == ToFloat(record.dict.weight)
         IN  IF ~weight_value.ok THEN Num(100)
             ELSE IF NotPositive(weight_value.val) THEN Num(100)
             ELSE weight_value.val

_repair_grade_record(record, today) ==
    LET r1 == Put(record, "grade", RepairedGrade(record))
        r2 == Put(r1, "date", RepairedDate(record, today))
        r3 == Put(r2, "type", RepairedType(record))
        r4 == Put(r3, "weight", RepairedWeight(record))
    IN  IF Has(r4, "comment") THEN r4 ELSE Put(r4, "comment", JStr(""))

\* The loop over one subject's records: dicts are repaired, the rest dropped.
RECURSIVE RepairedGrades(_, _)
RepairedGrades(l, today) ==
    IF l = <<>> THEN <<>>
    ELSE IF IsDict(Head(l))
         THEN <<_repair_grade_record(Head(l), today)>> \o RepairedGrades(Tail(l), today)
         ELSE RepairedGrades(Tail(l), today)

_check_grades_data(ss, today) ==
    IF ~ss.grades.set \/ ~IsDict(ss.grades.val) THEN SetVal(ss, "grades", JDict(<<>>))
    ELSE SetVal(ss, "grades",
             JDict([subject \in DOMAIN ss.grades.val.dict |->
                       IF ~IsList(ss.grades.val.dict[subject]) THEN JList(<<>>)
                       ELSE JList(RepairedGrades(ss.grades.val.dict[subject].list, today))]))

\* The loop of _check_subjects_data: names that are strings and not blank,
\* stripped, the first occurrence of each.
RECURSIVE UniqueSubjects(_)
UniqueSubjects(l) ==
    IF l = <<>> THEN <<>>
    ELSE LET kept == UniqueSubjects(SubSeq(l, 1, Len(l) - 1))
             subject == Last(l)
         IN  IF ~IsStr(subject) \/ strip(subject.str) = "" THEN kept
             ELSE IF InSeq(JStr(strip(subject.str)), kept) THEN kept
             ELSE Append(kept, JStr(strip(subject.str)))

_check_subjects_data(ss) ==
    IF ~ss.subjects.set \/ ~IsList(ss.subjects.val) THEN SetVal(ss, "subjects", JList(<<>>))
    ELSE SetVal(ss, "subjects", JList(UniqueSubjects(ss.subjects.val.list)))

\* The study_time of a progress record: 0.0 when absent or not a number,
\* else clamped to [0, 24] hours.
RepairedStudyTime(record) ==
    IF ~Has(record, "study_time") THEN Num(0)
    ELSE LET time_value == ToFloat(record.dict.study_time)
         IN  IF ~time_value.ok THEN Num(0)
             ELSE IF FloatLt(time_value.val, Num(0)) THEN Num(0)
             ELSE IF FloatGt(time_value.val, Num(2400)) THEN Num(2400)
             ELSE time_value.val

RECURSIVE RepairedProgress(_)
RepairedProgress(l) ==
    IF l = <<>> THEN <<>>
    ELSE IF IsDict(Head(l))
         THEN <<Put(Head(l), "study_time", RepairedStudyTime(Head(l)))>>
                 \o RepairedProgress(Tail(l))
         ELSE RepairedProgress(Tail(l))

_check_progress_data(ss) ==
    IF ~ss.progress.set \/ ~IsDict(ss.progress.val) THEN SetVal(ss, "progress", JDict(<<>>))
    ELSE SetVal(ss, "progress",
             JDict([subject \in DOMAIN ss.progress.val.dict |->
                       IF ~IsList(ss.progress.val.dict[subject]) THEN JList(<<>>)
                       ELSE JList(RepairedProgress(ss.progress.val.dict[subject].list))]))

_check_goals_data(ss) ==
    IF ~ss.goals.set THEN SetVal(ss, "goals", JList(<<>>))
    ELSE IF normalize_goals_data(ss.goals.val).kind = "raise"
    THEN SetVal(ss, "goals", JList(<<>>))
    ELSE SetVal(ss, "goals", normalize_goals_data(ss.goals.val).val)

\* The two formats _check_reminders_data tries on reminder['datetime'].
DateTimes == {"2025-07-01 08:00"}
\* A reminder is kept when it is a dict with a content that is not empty
\* and, if it has a datetime, one of the two formats.
ValidReminder(reminder) ==
    /\ IsDict(reminder)
    /\ Has(reminder, "content") /\ ~Falsy(reminder.dict.content)
    /\ Has(reminder, "datetime") =>
          reminder.dict.datetime.str \in DateTimes \cup Days
\* strptime raises TypeError, which is not caught, when the datetime is no string.
ReminderRaises(reminder) ==
    /\ IsDict(reminder)
    /\ Has(reminder, "content") /\ ~Falsy(reminder.dict.content)
    /\ Has(reminder, "datetime") /\ ~IsStr(reminder.dict.datetime)

_check_reminders_data(ss) ==
    IF ~ss.reminders.set \/ ~IsList(ss.reminders.val)
    THEN Returned(SetVal(ss, "reminders", JList(<<>>)))
    ELSE IF \E i \in 1..Len(ss.reminders.val.list) : ReminderRaises(ss.reminders.val.list[i])
    THEN Raised(ss)
    ELSE Returned(SetVal(ss, "reminders",
                         JList(SelectSeq(ss.reminders.val.list, ValidReminder))))

\* _create_empty_json_file: the content written over a file json.load rejects.
EmptyContent(fname) ==
    CASE fname \in {"subjects.json", "reminders.json"} -> JList(<<>>)
      [] fname \in {"grades.json", "progress.json"} -> JDict(<<>>)
      [] fname = "user_profile.json" ->
            JDict([name |-> JStr(""), age |-> JStr(""), education_level |-> JStr("")])

\* _check_json_files: the five files it lists; goals.json is not among them.
_check_json_files(fs) ==
    [fname \in FileNames |->
        IF fname # "goals.json" /\ fs[fname].state = "malformed"
        THEN Json(EmptyContent(fname)) ELSE fs[fname]]

check_and_repair_all_data(fs, ss, today) ==
    LET ss4 == _check_goals_data(_check_progress_data(_check_subjects_data(
                   _check_grades_data(ss, today))))
        ss5 == _check_reminders_data(ss4)
    IN  IF ss5.kind = "raise" THEN Outcome(fs, ss4, Raised("TypeError"))
        ELSE Outcome(_check_json_files(fs), ss5.val, Returned(None))

\* The grade records the check may meet: every field absent or holding a
\* value of the kinds json.load yields.
Absent == [absent |-> TRUE]
MkDict(fields) ==
    JDict([key \in {x \in DOMAIN fields : fields[x] # Absent} |-> fields[key]])

StoredGrades ==
    <<Absent, JNull, Num(-500), Num(8000), Num(8550), Num(15000), NaN, PosInf,
      NegInf, JStr("85"), JStr("abc"), JList(<<>>)>>
StoredWeights ==
    <<Absent, JNull, Num(-100), Num(0), Num(150), NaN, PosInf, JStr("2"), JStr("abc")>>
StoredTypes == <<Absent, JStr("test"), JStr("assignment"), JStr("quiz"), JNull>>
StoredDates ==
    <<Absent, JNull, JStr(""), JStr("2025-07-01"), JStr("2025-06-01 09:00:00"),
      JStr("abc"), Num(2025)>>
StoredComments == <<Absent, JStr("")>>

StoredRecord(g, w, t, d, c) ==
    MkDict([grade |-> StoredGrades[g], weight |-> StoredWeights[w],
            type |-> StoredTypes[t], date |-> StoredDates[d],
            comment |-> StoredComments[c]])

\* A session as the application leaves it, with one grade of one subject.
TypicalSession ==
    [subjects |-> Bound(JList(<<JStr("math")>>)),
     goals |-> Bound(JList(<<GoalRecord("math")>>)),
     progress |-> Bound(JDict([math |-> JList(<<ProgressRecord("2025-06-01 09:00:00")>>)])),
     grades |-> Bound(JDict([math |->
                   JList(<<GradeRecord("2025-06-01 09:00:00", "test", 8000, 100)>>)])),
     user_profile |-> Bound(DefaultProfile("2025-06-01 09:00:00")),
     reminders |-> Bound(JList(<<ReminderRecord("math", "2025-06-01 09:00:00")>>))]

\* Values of the other session keys that the check repairs.
DamagedSubjects ==
    <<Unset, Bound(JDict(<<>>)),
      Bound(JList(<<JStr("math"), JStr("  "), JNull, JStr("math"), JStr("english")>>))>>
DamagedProgress ==
    <<Unset, Bound(JList(<<>>)),
      Bound(JDict([math |-> JStr("lost"),
                   english |-> JList(<<JStr("lost"),
                                       JDict([study_time |-> Num(3000)]),
                                       JDict([study_time |-> JStr("abc")])>>)]))>>
DamagedGoals ==
    <<Unset, Bound(JDict(<<>>)), Bound(JList(<<JStr("lost"), GoalRecord("math")>>))>>
DamagedReminders ==
    <<Unset, Bound(JDict(<<>>)),
      Bound(JList(<<JStr("lost"),
                    JDict([content |-> JStr("revise"), datetime |-> JStr("2025-07-01 08:00")]),
                    JDict([content |-> JStr("revise"), datetime |-> JStr("abc")]),
                    JDict([content |-> JStr("revise")])>>)),
      Bound(JList(<<JDict([content |-> JStr("revise"), datetime |-> JNull])>>))>>
DamagedFiles ==
    <<NoFiles,
      [f \in FileNames |-> Malformed],
      [f \in FileNames |-> IF f = "grades.json" THEN Malformed ELSE Json(EmptyContent("subjects.json"))]>>

\* Either the grades are damaged in one of the ways listed and the rest of
\* the session is typical, or the grades are typical and the rest is damaged.
InitIntegrity ==
    /\ rFunc = "none" /\ rMax = 0 /\ rInit = 0 /\ rFactor = 0
    /\ attempt = 0 /\ wait_time = 0 /\ last_exception = None
    /\ rlog = <<>> /\ waits = <<>> /\ requests = <<>>
    /\ rpc = "idle" /\ rResult = None
    /\ mN = 0 /\ mValid = TRUE /\ best_model = None /\ best_model_name = None
    /\ tpc = "new" /\ trainOut = NotTrained /\ tFitting = FALSE
    /\ ppc = "idle" /\ pNum = 0 /\ pRows = 0
    /\ predictions = <<>> /\ outputs = <<>> /\ pOut = NoneResult
    /\ grades_list = <<>> /\ target_grade = 0 /\ remaining_tests = 0
    /\ test_weight = 0 /\ spc = "idle" /\ required_score = NoScore
    /\ verdict = "none" /\ averages = NoAverages
    /\ \/ /\ files = NoFiles
          /\ \/ \E g \in DOMAIN StoredGrades, w \in DOMAIN StoredWeights,
                   t \in DOMAIN StoredTypes, d \in DOMAIN StoredDates,
                   c \in DOMAIN StoredComments :
                   session_state =
                       [TypicalSession EXCEPT
                           !.grades = Bound(JDict([math |->
                               JList(<<StoredRecord(g, w, t, d, c)>>)]))]
             \/ session_state = [TypicalSession EXCEPT !.grades = Unset]
             \/ session_state = [TypicalSession EXCEPT !.grades = Bound(JList(<<>>))]
             \/ session_state =
                   [TypicalSession EXCEPT
                       !.grades = Bound(JDict([math |-> JStr("lost"),
                                               english |-> JList(<<JStr("lost"),
                                                   StoredRecord(3, 3, 4, 5, 1),
                                                   StoredRecord(5, 5, 2, 4, 2)>>)]))]
       \/ \E s \in DOMAIN DamagedSubjects, p \in DOMAIN DamagedProgress,
             g \in DOMAIN DamagedGoals, r \in DOMAIN DamagedReminders,
             f \in DOMAIN DamagedFiles :
             /\ files = DamagedFiles[f]
             /\ session_state =
                   [TypicalSession EXCEPT
                       !.subjects = DamagedSubjects[s], !.progress = DamagedProgress[p],
                       !.goals = DamagedGoals[g], !.reminders = DamagedReminders[r]]
    /\ dop = NoOp
    /\ before = [files |-> files, session_state |-> session_state]
    /\ nops = 0
    /\ subject_name = None /\ scaler = StandardScaler /\ feature_names = <<>>
    /\ ml_models = NoModels /\ ml_predictor = NoPredictor /\ lpc = "none"
    /\ lSubject = None /\ lWhen = "new" /\ lRet = FALSE /\ lOut = NoneResult
    /\ scores = <<>> /\ trend_slope = NoSlope
    /\ clock = 0 /\ backups = {} /\ bop = NoBackupOp /\ bcount = 0
    /\ fGrades = <<>> /\ fArgs = NoFilterArgs /\ fNow = NoDateTime
    /\ fOut = NoFilterOut

\* The button of the integrity page, or the check at start-up; dop.arg tells
\* whether the run follows another run directly.
CheckAndRepair ==
    /\ nops < MaxChecks
    /\ dop.result.kind = "return"
    /\ \E today \in Today :
          Apply("check_and_repair_all_data",
                IF dop.name = "check_and_repair_all_data" THEN <<"again">> ELSE <<"first">>,
                check_and_repair_all_data(files, session_state, today))

NextIntegrity == CheckAndRepair

SpecIntegrity == InitIntegrity /\ [][NextIntegrity]_vars

(***************************************************************************)
(* Claims about the integrity check.                                       *)
(***************************************************************************)
Checked == dop.name = "check_and_repair_all_data" /\ dop.result.kind = "return"

\* Every grade record of the session, as the set of <<subject, index>>.
GradeRecordsOf(ss) ==
    {<<subject, i>> \in (DOMAIN ss.grades.val.dict) \X (1..4) :
        i <= Len(ss.grades.val.dict[subject].list)}
GradeAt(ss, at) == ss.grades.val.dict[at[1]].list[at[2]]

WellFormedGrade(r) ==
    /\ IsDict(r)
    /\ Has(r, "grade") /\ IsNumber(r.dict.grade) /\ r.dict.grade.k = "num"
    /\ r.dict.grade.v >= 0 /\ r.dict.grade.v <= 10000
    /\ Has(r, "weight") /\ IsNumber(r.dict.weight) /\ FloatGt(r.dict.weight, Num(0))
    /\ Has(r, "type") /\ r.dict.type \in {JStr("test"), JStr("assignment")}
    /\ Has(r, "date") /\ ~Falsy(r.dict.date)

\* C17: after check_and_repair_all_data every grade record of the session
\* has a numeric grade in [0,100], a weight above 0, one of the two types
\* and a date that is not empty, and a run that follows directly changes no
\* grade record.
C17_GradesRepairedAndStable ==
    Checked =>
        /\ session_state.grades.set /\ IsDict(session_state.grades.val)
        /\ \A subject \in DOMAIN session_state.grades.val.dict :
              IsList(session_state.grades.val.dict[subject])
        /\ \A at \in GradeRecordsOf(session_state) :
              WellFormedGrade(GradeAt(session_state, at))
        /\ dop.arg = <<"again">> => session_state.grades = before.session_state.grades

(***************************************************************************)
(* Claims about the selection of the best model.                           *)
(***************************************************************************)
TrainSucceeded == trainOut.kind = "return" /\ trainOut.val.success
TestR2(name) == trainOut.val.r2[name]
FloatGe(a, b) == FloatGt(a, b) \/ (a = b /\ a.k # "nan")
Position(name) == CHOOSE i \in DOMAIN ModelOrder : ModelOrder[i] = name

\* C18: after a successful train, best_model_name names a candidate whose
\* test R2 is at least that of every other candidate, best_score is that
\* R2, and every candidate earlier in the order has a strictly smaller R2.
C18_BestModelHasHighestR2 ==
    TrainSucceeded =>
        /\ best_model_name \in ModelNames
        /\ \A name \in ModelNames : FloatGe(TestR2(best_model_name), TestR2(name))
        /\ trainOut.val.best_score = TestR2(best_model_name)
        /\ \A name \in ModelNames :
              Position(name) < Position(best_model_name) =>
                  FloatLt(TestR2(name), TestR2(best_model_name))

(***************************************************************************)
(* Model persistence.                                                      *)
(***************************************************************************)
LoadedAfterTraining ==
    lpc # "none" /\ lWhen = "trained" /\ TrainSucceeded /\ lSubject = subject_name
LoadedUntrained ==
    lpc # "none" /\ (lWhen = "new" \/ lSubject # subject_name)
TrainedObject ==
    [best_model |-> best_model, best_model_name |-> best_model_name,
     scaler |-> scaler, feature_names |-> feature_names]

\* C19: after train(grades, s) returned success, load_model(s) on a new
\* object returns True and restores the trained object's best model, model
\* name, scaler and feature names; load_model for a subject that was never
\* trained returns False and leaves the object without a model, so that
\* predict_next_grade returns None.
C19_ModelPersistedBySubject ==
    /\ LoadedAfterTraining => lRet /\ ml_predictor = TrainedObject
    /\ LoadedUntrained =>
          /\ ~lRet
          /\ ml_predictor.best_model = None
          /\ lpc = "predicted" => lOut = NoneResult

(***************************************************************************)
(* GradePredictionML._calculate_trend.                                     *)
(***************************************************************************)
MaxScores == 5

\* The grades a column of the frame can hold, in hundredths of a point; a
\* record without a grade gives NaN.
ScoreValues == {Num(6000), Num(6500), Num(7000), Num(7500), Num(8000), NaN}

\* np.arange(len(grades)): x[i] = i - 1 for the i-th grade.
RECURSIVE SumX(_)
SumX(n) == IF n = 0 THEN 0 ELSE SumX(n - 1) + (n - 1)
RECURSIVE SumXX(_)
SumXX(n) == IF n = 0 THEN 0 ELSE SumXX(n - 1) + (n - 1) * (n - 1)
RECURSIVE SumY(_, _)
SumY(grades, n) == IF n = 0 THEN 0 ELSE SumY(grades, n - 1) + grades[n].v
RECURSIVE SumXY(_, _)
SumXY(grades, n) ==
    IF n = 0 THEN 0 ELSE SumXY(grades, n - 1) + (n - 1) * grades[n].v

\* The least-squares slope of grades over x is SlopeNum / SlopeDen.
SlopeNumUncentred(grades) == Len(grades) * SumXY(grades, Len(grades))
SlopeNum(grades) ==
    Len(grades) * SumXY(grades, Len(grades))
        - SumX(Len(grades)) * SumY(grades, Len(grades))
SlopeDen(grades) ==
    Len(grades) * SumXX(Len(grades)) - SumX(Len(grades)) * SumX(Len(grades))

\* What _calculate_trend returns: the number 0 ("zero"), the float that
\* np.polyfit computed ("fit": the exact slope num / den plus a rounding
\* error of the sign `rounding` and of the order of the machine epsilon), or
\* NaN ("nan").
Zero == [called |-> TRUE, k |-> "zero", num |-> 0, den |-> 1, rounding |-> 0]
Fit(num, den, r) ==
    [called |-> TRUE, k |-> "fit", num |-> num, den |-> den, rounding |-> r]
NaNSlope == [called |-> TRUE, k |-> "nan", num |-> 0, den |-> 1, rounding |-> 0]

\* The rounding error of the SVD-based least-squares solve depends on the
\* LAPACK build.
Roundings == {-1, 0, 1}

\* _calculate_trend(grades): the set of results it can give.  With a NaN
\* among the grades the solve either fails to converge, which the bare
\* except turns into 0, or yields NaN.
_calculate_trend(grades) ==
    IF Len(grades) < 2 THEN {Zero}
    ELSE IF \E i \in DOMAIN grades : grades[i].k = "nan"
    THEN {Zero, NaNSlope}
    ELSE {Fit(SlopeNum(grades), SlopeDen(grades), r) : r \in Roundings}

InitTrend ==
    /\ rFunc = "none" /\ rMax = 0 /\ rInit = 0 /\ rFactor = 0
    /\ attempt = 0 /\ wait_time = 0 /\ last_exception = None
    /\ rlog = <<>> /\ waits = <<>> /\ requests = <<>>
    /\ rpc = "idle" /\ rResult = None
    /\ mN = 0 /\ mValid = TRUE /\ best_model = None /\ best_model_name = None
    /\ tpc = "new" /\ trainOut = NotTrained /\ tFitting = FALSE
    /\ ppc = "idle" /\ pNum = 0 /\ pRows = 0
    /\ predictions = <<>> /\ outputs = <<>> /\ pOut = NoneResult
    /\ grades_list = <<>> /\ target_grade = 0 /\ remaining_tests = 0
    /\ test_weight = 0 /\ spc = "idle" /\ required_score = NoScore
    /\ verdict = "none" /\ averages = NoAverages
    /\ files = NoFiles /\ session_state = NoSession
    /\ dop = NoOp /\ before = NoPrev /\ nops = 0
    /\ subject_name = None /\ scaler = StandardScaler /\ feature_names = <<>>
    /\ ml_models = NoModels /\ ml_predictor = NoPredictor /\ lpc = "none"
    /\ lSubject = None /\ lWhen = "new" /\ lRet = FALSE /\ lOut = NoneResult
    /\ scores \in UNION {[1..n -> ScoreValues] : n \in 0..MaxScores}
    /\ trend_slope = NoSlope
    /\ clock = 0 /\ backups = {} /\ bop = NoBackupOp /\ bcount = 0
    /\ fGrades = <<>> /\ fArgs = NoFilterArgs /\ fNow = NoDateTime
    /\ fOut = NoFilterOut

\* One call of _calculate_trend(scores).
CalculateTrend ==
    /\ ~trend_slope.called
    /\ trend_slope' \in _calculate_trend(scores)
    /\ UNCHANGED scores
    /\ UNCHANGED <<retryVars, mlVars, simVars, dataVars, persistVars,
                   backupVars, filterVars>>

NextTrend == CalculateTrend

SpecTrend == InitTrend /\ [][NextTrend]_vars

StrictlyIncreasing(s) ==
    \A i \in DOMAIN s : i > 1 => FloatLt(s[i - 1], s[i])
ConstantScores(s) ==
    \A i, j \in DOMAIN s : s[i].k = "num" /\ s[i] = s[j]
\* The sign of the returned float.
SlopePositive(t) == t.k = "fit" /\ (t.num > 0 \/ (t.num = 0 /\ t.rounding > 0))
\* The returned value is exactly 0.
SlopeIsZero(t) == t.k = "zero" \/ (t.k = "fit" /\ t.num = 0 /\ t.rounding = 0)
\* The returned value is 0 up to the rounding error of the solve.
SlopeNearZero(t) == t.k = "zero" \/ (t.k = "fit" /\ t.num = 0)

\* C20: _calculate_trend returns a strictly positive slope for a strictly
\* increasing sequence of at least 2 scores, a slope that is 0 up to
\* floating-point rounding for a constant sequence, and exactly 0 for fewer
\* than 2 scores.
C20_TrendSign ==
    trend_slope.called =>
        /\ (Len(scores) >= 2 /\ StrictlyIncreasing(scores)) =>
              SlopePositive(trend_slope)
        /\ ConstantScores(scores) => SlopeNearZero(trend_slope)
        /\ Len(scores) < 2 => trend_slope = Zero

\* The sequence [60,65,70,75,80] was given and the slope is 5 points
\* per step.
C20_Witness ==
    /\ trend_slope.called
    /\ scores = <<Num(6000), Num(6500), Num(7000), Num(7500), Num(8000)>>
    /\ SlopePositive(trend_slope)
    /\ trend_slope.num = 500 * trend_slope.den

\* C20 as stated: the slope of every constant sequence is exactly 0.
C20_Original ==
    trend_slope.called =>
        /\ (Len(scores) >= 2 /\ StrictlyIncreasing(scores)) =>
              SlopePositive(trend_slope)
        /\ ConstantScores(scores) => SlopeIsZero(trend_slope)
        /\ Len(scores) < 2 => SlopeIsZero(trend_slope)

(***************************************************************************)
(* BackupManager: one backup per day, kept for keep_days days.  Time is    *)
(* counted in hours; the directory is the set of the datetimes of its      *)
(* backup info files.                                                      *)
(***************************************************************************)
MaxBackupSteps == 5

\* self.keep_days
keep_days == 30

\* get_last_backup_info: the first entry of the list sorted newest first,
\* None for an empty list.
HasBackup(dir) == dir # {}
LastBackup(dir) == CHOOSE b \in dir : \A c \in dir : c <= b

\* should_backup: `time_since_backup >= timedelta(hours=24)`
ShouldBackupAfterADay(dir, t) ==
    IF ~HasBackup(dir) THEN TRUE ELSE t - LastBackup(dir) > 24
should_backup(dir, t) ==
    IF ~HasBackup(dir) THEN TRUE ELSE t - LastBackup(dir) >= 24

\* create_backup: copies the data files and writes {timestamp}_backup_info.json.
create_backup(dir, t) == dir \cup {t}

\* clean_old_backups: removes every backup with backup_date < cutoff_date.
clean_old_backups(dir, t) == {b \in dir : ~(b < t - keep_days * 24)}

\* auto_backup: (True, deleted_count) after a backup, else (False, 0).
auto_backup(dir, t) ==
    IF should_backup(dir, t)
    THEN [dir |-> clean_old_backups(create_backup(dir, t), t), ret |-> TRUE]
    ELSE [dir |-> dir, ret |-> FALSE]

InitBackup ==
    /\ rFunc = "none" /\ rMax = 0 /\ rInit = 0 /\ rFactor = 0
    /\ attempt = 0 /\ wait_time = 0 /\ last_exception = None
    /\ rlog = <<>> /\ waits = <<>> /\ requests = <<>>
    /\ rpc = "idle" /\ rResult = None
    /\ mN = 0 /\ mValid = TRUE /\ best_model = None /\ best_model_name = None
    /\ tpc = "new" /\ trainOut = NotTrained /\ tFitting = FALSE
    /\ ppc = "idle" /\ pNum = 0 /\ pRows = 0
    /\ predictions = <<>> /\ outputs = <<>> /\ pOut = NoneResult
    /\ grades_list = <<>> /\ target_grade = 0 /\ remaining_tests = 0
    /\ test_weight = 0 /\ spc = "idle" /\ required_score = NoScore
    /\ verdict = "none" /\ averages = NoAverages
    /\ files = NoFiles /\ session_state = NoSession
    /\ dop = NoOp /\ before = NoPrev /\ nops = 0
    /\ subject_name = None /\ scaler = StandardScaler /\ feature_names = <<>>
    /\ ml_models = NoModels /\ ml_predictor = NoPredictor /\ lpc = "none"
    /\ lSubject = None /\ lWhen = "new" /\ lRet = FALSE /\ lOut = NoneResult
    /\ scores = <<>> /\ trend_slope = NoSlope
    /\ clock \in {0, 5} /\ backups = {} /\ bop = NoBackupOp /\ bcount = 0
    /\ fGrades = <<>> /\ fArgs = NoFilterArgs /\ fNow = NoDateTime
    /\ fOut = NoFilterOut

\* Time passes: an hour, 23 hours, or the 30 days a backup is kept.
Tick ==
    /\ bcount < MaxBackupSteps
    /\ \E d \in {1, 23, keep_days * 24} : clock' = clock + d
    /\ bcount' = bcount + 1
    /\ UNCHANGED <<backups, bop>>
    /\ UNCHANGED <<retryVars, mlVars, simVars, dataVars, persistVars, trendVars,
                   filterVars>>

\* auto_backup, from auto_backup_on_startup or the page's button.
AutoBackup ==
    /\ bcount < MaxBackupSteps
    /\ LET r == auto_backup(backups, clock)
       IN  /\ backups' = r.dir
           /\ bop' = [name |-> "auto_backup", at |-> clock, before |-> backups,
                      created |-> r.ret]
    /\ bcount' = bcount + 1
    /\ UNCHANGED clock
    /\ UNCHANGED <<retryVars, mlVars, simVars, dataVars, persistVars, trendVars,
                   filterVars>>

\* The page's button that calls create_backup.
CreateBackup ==
    /\ bcount < MaxBackupSteps
    /\ backups' = create_backup(backups, clock)
    /\ bop' = [name |-> "create_backup", at |-> clock, before |-> backups,
               created |-> TRUE]
    /\ bcount' = bcount + 1
    /\ UNCHANGED clock
    /\ UNCHANGED <<retryVars, mlVars, simVars, dataVars, persistVars, trendVars,
                   filterVars>>

\* The page's button that calls clean_old_backups.
CleanOldBackups ==
    /\ bcount < MaxBackupSteps
    /\ backups' = clean_old_backups(backups, clock)
    /\ bop' = [name |-> "clean_old_backups", at |-> clock, before |-> backups,
               created |-> FALSE]
    /\ bcount' = bcount + 1
    /\ UNCHANGED clock
    /\ UNCHANGED <<retryVars, mlVars, simVars, dataVars, persistVars, trendVars,
                   filterVars>>

NextBackup == Tick \/ AutoBackup \/ CreateBackup \/ CleanOldBackups

SpecBackup == InitBackup /\ [][NextBackup]_vars

\* The last operation was auto_backup, called `age` hours or more after the
\* newest backup, or with no backup at all.
AutoCalled == bop.name = "auto_backup"
NoneNewerThan(age) == \A b \in bop.before : bop.at - b >= age

Listed(fs) ==
    IF ReadableReminders(fs) THEN fs["reminders.json"].data.list ELSE <<>>

\* The "complete" button of display_reminder_list on a reminder that is not
\* recurring: `idx = all_reminders.index(reminder)`, the two fields set and
\* all_reminders written to the file.
complete_reminder(fs, ss, i, now) ==
    LET all_reminders == Listed(fs)
        idx == IndexOf(all_reminders[i], all_reminders)
        done == Put(Put(all_reminders[idx], "completed", JBool(TRUE)),
                    "completed_at", JStr(now))
    IN  Outcome(json_dump(fs, "reminders.json",
                          JList([all_reminders EXCEPT ![idx] = done])),
                ss, Returned(None))

\* The "delete" button: `del all_reminders[idx]` and the file written.
delete_reminder(fs, ss, i) ==
    LET all_reminders == Listed(fs)
    IN  Outcome(json_dump(fs, "reminders.json",
                          JList(Remove(all_reminders[i], all_reminders))),
                ss, Returned(None))

\* data.delete_reminders(indices): the positions are deleted from the list
\* read from the file, which is written back; False when the file cannot
\* be read.
delete_reminders(fs, ss, indices) ==
    LET reminders == Listed(fs)
        Kept(n) == {i \in 1..Len(reminders) : i \notin indices /\ i <= n}
        kept == [i \in 1..Cardinality(Kept(Len(reminders))) |->
                    reminders[CHOOSE j \in Kept(Len(reminders)) :
                                  Cardinality(Kept(j)) = i]]
    IN  IF ~ReadableReminders(fs) THEN Outcome(fs, ss, Returned("False"))
        ELSE Outcome(json_dump(fs, "reminders.json", JList(kept)), ss,
                     Returned("True"))

CompleteReminder ==
    /\ nops < MaxOps
    /\ \E i \in 1..Len(Listed(files)), now \in Times :
          /\ ~Get(Listed(files)[i], "completed", JBool(FALSE)).bool
          /\ Apply("complete_reminder", <<i>>,
                   complete_reminder(files, session_state, i, now))

DeleteReminder ==
    /\ nops < MaxOps
    /\ \E i \in 1..Len(Listed(files)) :
          Apply("delete_reminder", <<i>>, delete_reminder(files, session_state, i))

\* The table of edit_reminders_data with some rows ticked.
DeleteReminders ==
    /\ nops < MaxOps
    /\ \E indices \in (SUBSET (1..Len(Listed(files)))) \ {{}} :
          Apply("delete_reminders", <<indices>>,
                delete_reminders(files, session_state, indices))

NextReminders ==
    \/ AddSubject \/ CreateReminder
    \/ CompleteReminder \/ DeleteReminder \/ DeleteReminders

SpecReminders == InitData /\ [][NextReminders]_vars

ReminderOps ==
    {"create_reminder", "complete_reminder", "delete_reminder", "delete_reminders"}

\* C22: after every reminder operation st.session_state.reminders and
\* reminders.json hold the same list of reminders.
C22_RemindersInSync ==
    dop.name \in ReminderOps =>
        session_state.reminders.val = FileValue("reminders.json")

(***************************************************************************)
(* The integrity check run on the data the pages wrote: grades from        *)
(* record_grade, reminders from create_reminder and from a study plan.     *)
(***************************************************************************)
\* The days of the model's calendar, numbered from 2025-06-01.
Calendar ==
    [d \in {1, 2, 5, 7, 8, 24, 28, 30, 31} |->
        CASE d = 1 -> "2025-06-01" [] d = 2 -> "2025-06-02"
          [] d = 5 -> "2025-06-05" [] d = 7 -> "2025-06-07"
          [] d = 8 -> "2025-06-08" [] d = 24 -> "2025-06-24"
          [] d = 28 -> "2025-06-28" [] d = 30 -> "2025-06-30"
          [] d = 31 -> "2025-07-01"]
DayNumber(date) == CHOOSE d \in DOMAIN Calendar : Calendar[d] = date
\* The day of a `%Y-%m-%d %H:%M:%S` time of Times; its time of day is after
\* midnight.
DayOfTime(now) == IF now = "2025-06-01 09:00:00" THEN 1 ELSE 2

\* The timings of create_reminders_from_plan, in the order of its code, with
\* the option that asks for each and the days before the deadline.
PlanTimings ==
    <<[option |-> "1_week_before", days |-> 7, timing |-> "1 week before"],
      [option |-> "3_days_before", days |-> 3, timing |-> "3 days before"],
      [option |-> "1_day_before", days |-> 1, timing |-> "the day before"],
      [option |-> "on_deadline", days |-> 0, timing |-> "deadline"]>>

\* `reminder_date >= datetime.now()` for the three timings before the
\* deadline; the reminder of the deadline itself is always created.
PlanTimingDue(t, deadline, options, now) ==
    /\ t.option \in options
    /\ t.days > 0 => DayNumber(deadline) - t.days > DayOfTime(now)

PlanReminder(t, deadline, now) ==
    JDict([subject |-> JStr("math"), type |-> JStr("study plan"),
           date |-> JStr(Calendar[DayNumber(deadline) - t.days]),
           text |-> JStr(t.timing), completed |-> JBool(FALSE),
           created_at |-> JStr(now), source |-> JStr("planning"),
           plan_id |-> JStr("plan-1"), timing |-> JStr(t.timing)])

\* create_reminders_from_plan(plan, reminder_options) for a plan with a
\* deadline: the reminders are appended in the session and, when there is
\* one at least, the list is saved.
create_reminders_from_plan(fs, ss, deadline, options, now) ==
    LET Due(t) == PlanTimingDue(t, deadline, options, now)
        due == SelectSeq(PlanTimings, Due)
        created == [i \in 1..Len(due) |-> PlanReminder(due[i], deadline, now)]
        ss2 == SetVal(ss, "reminders", JList(ss.reminders.val.list \o created))
    IN  IF Len(due) = 0 THEN Outcome(fs, ss, Returned("0"))
        ELSE Outcome(SaveKey(fs, ss2, "reminders"), ss2, Returned("created"))

CreateRemindersFromPlan ==
    /\ nops < MaxOps
    /\ Len(session_state.reminders.val.list) < MaxItems
    /\ \E deadline \in {"2025-06-08", "2025-07-01"}, now \in Times,
          options \in SUBSET {PlanTimings[i].option : i \in DOMAIN PlanTimings} :
          Apply("create_reminders_from_plan", <<deadline>>,
                create_reminders_from_plan(files, session_state, deadline,
                                           options, now))

\* The button of display_data_integrity_check.
RunIntegrityCheck ==
    /\ nops < MaxOps
    /\ \E today \in Today :
          Apply("check_and_repair_all_data", <<today>>,
                check_and_repair_all_data(files, session_state, today))

NextUpkeep ==
    \/ AddSubject \/ RecordGrade \/ CreateReminder \/ CreateRemindersFromPlan
    \/ RunIntegrityCheck

SpecUpkeep == InitData /\ [][NextUpkeep]_vars

\* A reminder as create_reminder and create_reminders_from_plan make it.
CreatedReminder(r) ==
    /\ IsDict(r)
    /\ Has(r, "subject") /\ Has(r, "type")
    /\ Has(r, "date") /\ IsStr(r.dict.date)
    /\ r.dict.date.str \in {Calendar[d] : d \in DOMAIN Calendar}
    /\ Has(r, "text") /\ ~Falsy(r.dict.text)

\* C23: check_and_repair_all_data keeps in st.session_state.reminders every
\* reminder that create_reminder or create_reminders_from_plan produced.
C23_CheckKeepsCreatedReminders ==
    Checked =>
        \A i \in 1..Len(before.session_state.reminders.val.list) :
            CreatedReminder(before.session_state.reminders.val.list[i]) =>
                /\ IsList(session_state.reminders.val)
                /\ InSeq(before.session_state.reminders.val.list[i],
                         session_state.reminders.val.list)

\* A grade record as record_grade makes it, with a grade in 0..100.
RecordedGrade(r) ==
    /\ IsDict(r)
    /\ DOMAIN r.dict = {"date", "type", "grade", "weight", "comment"}
    /\ r.dict.grade.k = "num" /\ r.dict.grade.v >= 0 /\ r.dict.grade.v <= 10000

\* C24: check_and_repair_all_data leaves every grade record that
\* record_grade created with a grade in 0..100 as it was: date, type, grade,
\* weight and comment keep their values.
C24_CheckLeavesRecordedGrades ==
    Checked =>
        \A at \in GradeRecordsOf(before.session_state) :
            RecordedGrade(GradeAt(before.session_state, at)) =>
                /\ at \in GradeRecordsOf(session_state)
                /\ GradeAt(session_state, at) = GradeAt(before.session_state, at)

(***************************************************************************)
(* A successful training leaves a model.                                   *)
(***************************************************************************)
\* C25: whenever train returned success=True, best_model is one of the four
\* fitted candidates and best_model_name is its name, whatever the R2 of the
\* held-out evaluation was, NaN included.
C25_SuccessLeavesBestModel ==
    TrainSucceeded =>
        /\ best_model \in ModelNames
        /\ best_model_name = best_model
        /\ trainOut.val.best_model = best_model_name

(***************************************************************************)
(* calculate_required_score on every input of the simulation form.         *)
(***************************************************************************)
\* The form's ranges: a remaining test at least, a weight from 0.0 up.
FormInput == remaining_tests >= 1 /\ test_weight >= 0 /\ target_grade \in 0..100

\* C26: for every input the goal-simulation form can supply, a test weight
\* of 0 included, calculate_required_score returns a number or None and
\* does not raise.
C26_RequiredScoreNeverRaises ==
    (spc \in {"calculated", "reported"} /\ FormInput) =>
        required_score.kind \in {"num", "none"}

(***************************************************************************)
(* data.delete_grades.                                                     *)
(***************************************************************************)
MaxGradeRows == 3
MaxIndices == 2

\* `sorted(indices, reverse=True)`
RECURSIVE SortedReverse(_)
SortedReverse(indices) ==
    IF indices = <<>> THEN <<>>
    ELSE LET m == CHOOSE i \in DOMAIN indices :
                     \A j \in DOMAIN indices : indices[j] <= indices[i]
         IN  <<indices[m]>>
             \o SortedReverse(SubSeq(indices, 1, m - 1)
                              \o SubSeq(indices, m + 1, Len(indices)))

\* The loop of delete_grades: `del l[index]` for every index in range, in
\* the order given; Python counts positions from 0.
RECURSIVE DeleteEach(_, _)
DeleteEach(l, order) ==
    IF order = <<>> THEN l
    ELSE LET index == Head(order)
         IN  IF 0 <= index /\ index < Len(l)
             THEN DeleteEach(SubSeq(l, 1, index) \o SubSeq(l, index + 2, Len(l)),
                             Tail(order))
             ELSE DeleteEach(l, Tail(order))

delete_grades(fs, ss, subject, indices) ==
    IF Has(ss.grades.val, subject)
    THEN LET ss2 == SetVal(ss, "grades",
                        Put(ss.grades.val, subject,
                            JList(DeleteEach(ss.grades.val.dict[subject].list,
                                             SortedReverse(indices)))))
         IN  Outcome(SaveKey(fs, ss2, "grades"), ss2, Returned("True"))
    ELSE Outcome(fs, ss, Returned("False"))

\* Sessions in which math has up to MaxGradeRows recorded grades, all saved.
RecordedRows(n) ==
    [i \in 1..n |-> GradeRecord("2025-06-01 09:00:00", "test", 6000 + 1000 * i, 100)]

InitGrades ==
    /\ rFunc = "none" /\ rMax = 0 /\ rInit = 0 /\ rFactor = 0
    /\ attempt = 0 /\ wait_time = 0 /\ last_exception = None
    /\ rlog = <<>> /\ waits = <<>> /\ requests = <<>>
    /\ rpc = "idle" /\ rResult = None
    /\ mN = 0 /\ mValid = TRUE /\ best_model = None /\ best_model_name = None
    /\ tpc = "new" /\ trainOut = NotTrained /\ tFitting = FALSE
    /\ ppc = "idle" /\ pNum = 0 /\ pRows = 0
    /\ predictions = <<>> /\ outputs = <<>> /\ pOut = NoneResult
    /\ grades_list = <<>> /\ target_grade = 0 /\ remaining_tests = 0
    /\ test_weight = 0 /\ spc = "idle" /\ required_score = NoScore
    /\ verdict = "none" /\ averages = NoAverages
    /\ \E n \in 0..MaxGradeRows :
          /\ session_state =
                [FreshSession("2025-06-01 09:00:00") EXCEPT
                    !.subjects = Bound(JList(<<JStr("math"), JStr("english")>>)),
                    !.grades = Bound(JDict([math |-> JList(RecordedRows(n))]))]
          /\ files = SaveKey(SaveKey(NoFiles, session_state, "subjects"),
                             session_state, "grades")
    /\ dop = NoOp
    /\ before = [files |-> files, session_state |-> session_state]
    /\ nops = 0
    /\ subject_name = None /\ scaler = StandardScaler /\ feature_names = <<>>
    /\ ml_models = NoModels /\ ml_predictor = NoPredictor /\ lpc = "none"
    /\ lSubject = None /\ lWhen = "new" /\ lRet = FALSE /\ lOut = NoneResult
    /\ scores = <<>> /\ trend_slope = NoSlope
    /\ clock = 0 /\ backups = {} /\ bop = NoBackupOp /\ bcount = 0
    /\ fGrades = <<>> /\ fArgs = NoFilterArgs /\ fNow = NoDateTime
    /\ fOut = NoFilterOut

\* A call of delete_grades with any list of positions.
DeleteGrades ==
    /\ nops < MaxOps
    /\ \E subject \in {"math", "english"}, n \in 0..MaxIndices :
       \E indices \in [1..n -> -1..MaxGradeRows] :
          Apply("delete_grades", <<[subject |-> subject, indices |-> indices]>>,
                delete_grades(files, session_state, subject, indices))

NextGrades == DeleteGrades

SpecGrades == InitGrades /\ [][NextGrades]_vars

\* The records of l at the positions (from 0) that indices does not name.
Named(indices) == {indices[i] : i \in DOMAIN indices}
Survivors(l, indices) ==
    LET Kept(n) == {i \in 1..Len(l) : (i - 1) \notin Named(indices) /\ i <= n}
    IN  [i \in 1..Cardinality(Kept(Len(l))) |->
            l[CHOOSE j \in Kept(Len(l)) : Cardinality(Kept(j)) = i]]

MaxFilterRows == 2

\* The days of the model with date.toordinal() and the day of the month.
FilterDays ==
    <<[date |-> "2025-03-12", ord |-> 739322, dom |-> 12],
      [date |-> "2025-06-01", ord |-> 739403, dom |-> 1],
      [date |-> "2025-06-09", ord |-> 739411, dom |-> 9],
      [date |-> "2025-06-10", ord |-> 739412, dom |-> 10],
      [date |-> "2025-06-11", ord |-> 739413, dom |-> 11]>>
DayEntry(date) == FilterDays[CHOOSE i \in DOMAIN FilterDays : FilterDays[i].date = date]
DayStrings == {FilterDays[i].date : i \in DOMAIN FilterDays}

\* strftime("%Y-%m-%d %H:%M:%S") of a day at 09:00:00, as record_grade
\* writes it.
StampOf(date) ==
    CASE date = "2025-03-12" -> "2025-03-12 09:00:00"
      [] date = "2025-06-01" -> "2025-06-01 09:00:00"
      [] date = "2025-06-09" -> "2025-06-09 09:00:00"
      [] date = "2025-06-10" -> "2025-06-10 09:00:00"
      [] date = "2025-06-11" -> "2025-06-11 09:00:00"
\* 09:00:00 of a day, in seconds after midnight.
Morning(day) == [day |-> day, time |-> 32400]

\* Periods of the filter form: this week, this month, 3 months, 6 months,
\* 1 year, all, custom.
Periods == {"this_week", "this_month", "3_months", "6_months", "1_year",
            "all", "custom"}

\* datetime.strptime(s, "%Y-%m-%d"): midnight of the day for a plain date,
\* ValueError for anything else (a time of day is unconverted data).
strptime_date(s) ==
    IF s \in DayStrings
    THEN [ok |-> TRUE, at |-> [day |-> DayEntry(s).ord, time |-> 0]]
    ELSE [ok |-> FALSE, at |-> NoDateTime]

\* datetime comparison and arithmetic.
NotAfter(a, b) == a.day < b.day \/ (a.day = b.day /\ a.time <= b.time)
MinusDays(t, n) == [t EXCEPT !.day = @ - n]
weekday(t) == (t.day + 6) % 7
DayOfMonthOf(t) ==
    FilterDays[CHOOSE i \in DOMAIN FilterDays : FilterDays[i].ord = t.day].dom
FirstOfMonth(t) == [t EXCEPT !.day = @ - (DayOfMonthOf(t) - 1)]

\* The branch that computes start_date and end_date; `filter` is FALSE where
\* the function returns grades_data as it is.
PeriodBounds(today, period, custom_start, custom_end) ==
    CASE period = "all" -> [filter |-> FALSE, start |-> today, end |-> today]
      [] period = "this_week" ->
            [filter |-> TRUE, start |-> MinusDays(today, weekday(today)), end |-> today]
      [] period = "this_month" ->
            [filter |-> TRUE, start |-> FirstOfMonth(today), end |-> today]
      [] period = "3_months" ->
            [filter |-> TRUE, start |-> MinusDays(today, 90), end |-> today]
      [] period = "6_months" ->
            [filter |-> TRUE, start |-> MinusDays(today, 180), end |-> today]
      [] period = "1_year" ->
            [filter |-> TRUE, start |-> MinusDays(today, 365), end |-> today]
      [] period = "custom" /\ custom_start # None /\ custom_end # None ->
            [filter |-> TRUE, start |-> strptime_date(custom_start).at,
             end |-> strptime_date(custom_end).at]
      [] OTHER -> [filter |-> FALSE, start |-> today, end |-> today]

\* The inner loop: a record is appended when its date parses and lies
\* between the bounds, and skipped on ValueError.
FilteredGrades(glist, b) ==
    SelectSeq(glist,
              LAMBDA grade :
                 LET parsed == strptime_date(grade.dict.date.str)
                 IN  parsed.ok /\ NotAfter(b.start, parsed.at)
                               /\ NotAfter(parsed.at, b.end))

filter_grades_by_period(grades_data, period, custom_start, custom_end, today) ==
    LET b == PeriodBounds(today, period, custom_start, custom_end)
    IN  IF ~b.filter THEN grades_data
        ELSE [subject \in {s \in DOMAIN grades_data :
                              FilteredGrades(grades_data[s], b) # <<>>} |->
                 FilteredGrades(grades_data[subject], b)]

\* Grade records: those record_grade writes and those that carry a plain
\* date.
FilterRecords ==
    {GradeRecord(StampOf(d), "test", 8000, 100) : d \in DayStrings}
        \cup {GradeRecord(d, "test", 8000, 100) : d \in DayStrings}

InitFilter ==
    /\ rFunc = "none" /\ rMax = 0 /\ rInit = 0 /\ rFactor = 0
    /\ attempt = 0 /\ wait_time = 0 /\ last_exception = None
    /\ rlog = <<>> /\ waits = <<>> /\ requests = <<>>
    /\ rpc = "idle" /\ rResult = None
    /\ mN = 0 /\ mValid = TRUE /\ best_model = None /\ best_model_name = None
    /\ tpc = "new" /\ trainOut = NotTrained /\ tFitting = FALSE
    /\ ppc = "idle" /\ pNum = 0 /\ pRows = 0
    /\ predictions = <<>> /\ outputs = <<>> /\ pOut = NoneResult
    /\ grades_list = <<>> /\ target_grade = 0 /\ remaining_tests = 0
    /\ test_weight = 0 /\ spc = "idle" /\ required_score = NoScore
    /\ verdict = "none" /\ averages = NoAverages
    /\ session_state = NoSession /\ files = NoFiles /\ dop = NoOp
    /\ before = [files |-> NoFiles, session_state |-> NoSession]
    /\ nops = 0
    /\ subject_name = None /\ scaler = StandardScaler /\ feature_names = <<>>
    /\ ml_models = NoModels /\ ml_predictor = NoPredictor /\ lpc = "none"
    /\ lSubject = None /\ lWhen = "new" /\ lRet = FALSE /\ lOut = NoneResult
    /\ scores = <<>> /\ trend_slope = NoSlope
    /\ clock = 0 /\ backups = {} /\ bop = NoBackupOp /\ bcount = 0
    /\ \E n \in 0..MaxFilterRows : \E rows \in [1..n -> FilterRecords] :
          fGrades = [subject \in {"math"} |-> rows]
    /\ fArgs = NoFilterArgs
    /\ fNow = Morning(DayEntry("2025-06-11").ord)
    /\ fOut = NoFilterOut

\* apply_all_filters calls filter_grades_by_period with the form's period;
\* the custom dates are set only for the custom period.
FilterGrades ==
    /\ ~fOut.called
    /\ \E period \in Periods :
       \E custom_start, custom_end \in
             (IF period = "custom" THEN DayStrings ELSE {None}) :
          /\ fArgs' = [period |-> period, custom_start |-> custom_start,
                       custom_end |-> custom_end]
          /\ fOut' = [called |-> TRUE,
                      data |-> filter_grades_by_period(fGrades, period,
                                   custom_start, custom_end, fNow)]
    /\ UNCHANGED <<retryVars, mlVars, simVars, dataVars, persistVars,
                   trendVars, backupVars, fGrades, fNow>>

NextFilter == FilterGrades

SpecFilter == InitFilter /\ [][NextFilter]_vars

\* The instant a record's date names: midnight for a plain date, 09:00:00
\* of the day for a time written by record_grade.
InstantOf(s) ==
    IF s \in DayStrings THEN [day |-> DayEntry(s).ord, time |-> 0]
    ELSE LET d == CHOOSE x \in DayStrings : StampOf(x) = s
         IN  Morning(DayEntry(d).ord)

\* The records of a list whose date lies between the bounds of the period.
InPeriod(glist, b) ==
    SelectSeq(glist,
              LAMBDA grade :
                 /\ NotAfter(b.start, InstantOf(grade.dict.date.str))
                 /\ NotAfter(InstantOf(grade.dict.date.str), b.end))

\* C28: with a period other than "all", filter_grades_by_period returns
\* every grade record whose date lies in the period and no other, also for
\* the records record_grade created ('YYYY-MM-DD HH:MM:SS').
C28_FilterKeepsPeriod ==
    (fOut.called /\ fArgs.period # "all") =>
        LET b == PeriodBounds(fNow, fArgs.period, fArgs.custom_start,
                              fArgs.custom_end)
        IN  \A s \in DOMAIN fGrades :
               (IF s \in DOMAIN fOut.data THEN fOut.data[s] ELSE <<>>)
                  = InPeriod(fGrades[s], b)
====
